---- MODULE Spec2Model ----
(***************************************************************************)
(* A model of ts-release's wallpaper renderer: the layout calculator       *)
(* (ComputeLayoutForText) and the render orchestrator (Render) with the    *)
(* helpers they call.                                                      *)
(*                                                                         *)
(* Strings are sequences of one-character strings, so that trimming and    *)
(* measuring work on them.  Lengths in golang.org/x/image's fixed.Int26_6  *)
(* are integers counting 1/64 pixel.  Go's int is 64 bits wide; no value   *)
(* of the model comes near that width, so int arithmetic is unbounded.     *)
(***************************************************************************)
EXTENDS Integers, Sequences, FiniteSets, TLC

\* ------------------------------------------------------------------------
\* Bounds of the model: how many wide ("W") and narrow ("i") glyphs a
\* target name and a build ID hold.
MaxWide == 4
MaxNarrow == 1
MaxSubWide == 3
MaxSubNarrow == 1

\* ------------------------------------------------------------------------
\* Constants of the program.
TargetWidth == 3840
TargetHeight == 2160
boxWidthPercent == 48
paddingPercent == 5
radiusDivisor == 9
lineThicknessDiv == 160
boxOpacityDefault == 200

\* ------------------------------------------------------------------------
\* Go's integer helpers.

minInt(a, b) == IF a < b THEN a ELSE b

maxInt(a, b) == IF a > b THEN a ELSE b

\* Go's integer division truncates toward zero (b > 0 everywhere it is used).
GoDiv(a, b) == IF a >= 0 THEN a \div b ELSE -((-a) \div b)

\* fixed.Int26_6.Ceil(): (x + 0x3f) >> 6, an arithmetic shift.
Ceil(x) == (x + 63) \div 64

\* ------------------------------------------------------------------------
\* Text.

Whitespace == {" ", "\t", "\n"}

Digits == <<"0", "1", "2", "3", "4", "5", "6", "7", "8", "9">>

Runes ==
    {"T", "S", "H", "W", "i", "b", "u", "l", "d", "n", "k", "o", "w", "-", ":", "Z"}
        \cup Whitespace \cup {Digits[i] : i \in 1..10}

RECURSIVE TrimLeft(_)
TrimLeft(s) ==
    IF s # <<>> /\ Head(s) \in Whitespace THEN TrimLeft(Tail(s)) ELSE s

RECURSIVE TrimRight(_)
TrimRight(s) ==
    IF s # <<>> /\ s[Len(s)] \in Whitespace
    THEN TrimRight(SubSeq(s, 1, Len(s) - 1))
    ELSE s

\* strings.TrimSpace: the string without its leading and trailing white space.
TrimSpace(s) == TrimRight(TrimLeft(s))

StrTSSH == <<"T", "S", "S", "H">>

StrBuildUnknown == <<"b", "u", "i", "l", "d", " ", "u", "n", "k", "n", "o", "w", "n">>

\* Variant: the target name is used as given, without trimming.
titleLabelUntrimmed(name) ==
    IF name = <<>> THEN StrTSSH ELSE StrTSSH \o <<" ">> \o name

\* The title label Render builds from the target name.
titleLabel(name) ==
    LET trimmed == TrimSpace(name)
    IN  IF trimmed = <<>> THEN StrTSSH ELSE StrTSSH \o <<" ">> \o trimmed

\* The subtitle label Render builds from the build ID.
subtitleLabel(id) ==
    LET trimmed == TrimSpace(id)
    IN  IF trimmed = <<>> THEN StrBuildUnknown ELSE trimmed

\* time.Time.Format(time.RFC3339) of the UTC time t seconds after the epoch,
\* for t below ten.
RFC3339(t) ==
    <<"1", "9", "7", "0", "-", "0", "1", "-", "0", "1", "T",
      "0", "0", ":", "0", "0", ":", "0", Digits[t + 1], "Z">>

\* ------------------------------------------------------------------------
\* Fonts.  The embedded font files are data of the build; a font is its
\* parse outcome and, in font units, its line metrics and glyph advances
\* (one advance for "W", one for "i", one for every other glyph).

NilFace == [nil |-> TRUE]

nilError == "<nil>"

Font(status, asc, desc, wide, narrow, other) ==
    [status |-> status, unitsPerEm |-> 2048, ascent |-> asc, descent |-> desc,
     wide |-> wide, narrow |-> narrow, other |-> other]

\* Bold fonts: at the title size "TSSH WWWW" measures exactly 2688 px in
\* BoldA and 2688.25 px in BoldB.
BoldA == Font("ok", 1901, 483, 8921, 569, 1359)
BoldB == Font("ok", 1901, 483, 8922, 569, 1359)
BoldUnparsable == Font("parse", 0, 0, 0, 0, 0)

\* Regular fonts: at the subtitle size "WWi" measures exactly 2688 px in
\* RegularA and 2688 + 4/64 px in RegularB.
RegularA == Font("ok", 1901, 483, 35118, 554, 1200)
RegularB == Font("ok", 1901, 483, 35119, 554, 1200)
RegularNoFace == Font("face", 0, 0, 0, 0, 0)

\* sfnt's scaling of a length in font units to 26.6 pixels at ppem.
scale(units, ppem, unitsPerEm) == (units * ppem + unitsPerEm \div 2) \div unitsPerEm

\* The face of opentype.NewFace at DPI 72: sizeMilli is the point size in
\* 1/1000 pt, ppem is it in 26.6 fixed point, rounded.
faceOf(fontData, sizeMilli) ==
    LET ppem == (sizeMilli * 64 + 500) \div 1000
        u == fontData.unitsPerEm
    IN  [ascent |-> scale(fontData.ascent, ppem, u),
         descent |-> scale(fontData.descent, ppem, u),
         adv |-> [r \in Runes |->
                    IF r = "W" THEN scale(fontData.wide, ppem, u)
                    ELSE IF r = "i" THEN scale(fontData.narrow, ppem, u)
                    ELSE scale(fontData.other, ppem, u)]]

\* The message of the error opentype.Parse or opentype.NewFace returned; the
\* program wraps it without reading it.
LibraryError == "<opentype error>"

\* loadFace: parse the font, construct its face.
loadFace(fontData, sizeMilli) ==
    IF fontData.status = "parse"
    THEN [face |-> NilFace, err |-> "render: parse font: " \o LibraryError]
    ELSE IF fontData.status = "face"
    THEN [face |-> NilFace, err |-> "render: construct font face: " \o LibraryError]
    ELSE [face |-> faceOf(fontData, sizeMilli), err |-> nilError]

\* font.MeasureString: the sum of the glyph advances, in 26.6 pixels (the
\* fonts of the model have no kerning pairs).
RECURSIVE MeasureString(_, _)
MeasureString(face, text) ==
    IF text = <<>> THEN 0
    ELSE face.adv[Head(text)] + MeasureString(face, Tail(text))

\* ------------------------------------------------------------------------
\* ComputeLayoutForText, one operator per quantity it derives.

\* Variant: the error path returns a Layout with the default opacity set.
DefaultedLayout ==
    [Width |-> 0, Height |-> 0, BoxX0 |-> 0, BoxY0 |-> 0, BoxX1 |-> 0, BoxY1 |-> 0,
     BoxWidth |-> 0, BoxHeight |-> 0, BoxRadius |-> 0, BoxOpacity |-> boxOpacityDefault,
     Padding |-> 0, TitleX |-> 0, TitleY |-> 0, SubtitleX |-> 0, SubtitleY |-> 0,
     SeparatorY |-> 0, SeparatorThickness |-> 0,
     TitleFontSize |-> 0, SubtitleFontSize |-> 0]

\* Layout{}: Go's zero value.
ZeroLayout ==
    [Width |-> 0, Height |-> 0, BoxX0 |-> 0, BoxY0 |-> 0, BoxX1 |-> 0, BoxY1 |-> 0,
     BoxWidth |-> 0, BoxHeight |-> 0, BoxRadius |-> 0, BoxOpacity |-> 0, Padding |-> 0,
     TitleX |-> 0, TitleY |-> 0, SubtitleX |-> 0, SubtitleY |-> 0,
     SeparatorY |-> 0, SeparatorThickness |-> 0,
     TitleFontSize |-> 0, SubtitleFontSize |-> 0]

\* Variant: the fallback is taken only when both sizes are non-positive.
canvasSizeBothNonPositive(w, h) ==
    IF w <= 0 /\ h <= 0
    THEN [w |-> TargetWidth, h |-> TargetHeight]
    ELSE [w |-> w, h |-> h]

\* Non-positive canvas sizes fall back to the target resolution.
canvasSize(w, h) ==
    IF w <= 0 \/ h <= 0
    THEN [w |-> TargetWidth, h |-> TargetHeight]
    ELSE [w |-> w, h |-> h]

facesMissing(tf, sf) == tf = NilFace \/ sf = NilFace

lineHeight(face) == Ceil(face.ascent + face.descent)

padding(w, h) == maxInt(14, GoDiv(minInt(w, h) * paddingPercent, 100))

\* Variant: the content width follows the title alone.
contentWidthOfTitle(titleAdvance, subAdvance) == titleAdvance

contentWidth(titleAdvance, subAdvance) == maxInt(titleAdvance, subAdvance)

defaultBoxWidth(w) == GoDiv(w * boxWidthPercent, 100)

boxWidth(w, pad, titleAdvance, subAdvance) ==
    maxInt(defaultBoxWidth(w), contentWidth(titleAdvance, subAdvance) + pad * 2)

lineThickness(h) == maxInt(2, GoDiv(h, lineThicknessDiv))

gapAfterTitle(pad, thick) == maxInt(GoDiv(pad, 3), thick)

\* Variant: a third of the padding, as for the gap after the title.
gapAfterSeparatorThird(pad) == GoDiv(pad, 3)

gapAfterSeparator(pad) == GoDiv(pad, 2)

boxHeight(pad, titleHeight, subtitleHeight, thick) ==
    pad + titleHeight + gapAfterTitle(pad, thick) + thick + gapAfterSeparator(pad)
        + subtitleHeight + pad

\* Variant: the centering rounds down instead of toward zero.
boxX0Floor(w, bw) == (w - bw) \div 2

boxX0(w, bw) == GoDiv(w - bw, 2)

\* Variant: the operands of the centering are swapped.
boxY0Swapped(h, bh) == GoDiv(bh - h, 2)

boxY0(h, bh) == GoDiv(h - bh, 2)

radius(bw, bh) == maxInt(10, GoDiv(minInt(bw, bh), radiusDivisor))

titleX(x0, bw, titleAdvance) == x0 + GoDiv(bw - titleAdvance, 2)

\* Variant: the title baseline is placed from the box edge, without the padding.
titleYWithoutPadding(y0, pad, tf) == y0 + Ceil(tf.ascent)

titleY(y0, pad, tf) == y0 + pad + Ceil(tf.ascent)

separatorY(y0, pad, titleHeight, thick) ==
    y0 + pad + titleHeight + gapAfterTitle(pad, thick) + GoDiv(thick, 2)

\* Variant: the subtitle starts at the center of the box.
subtitleXAtCenter(x0, bw, subAdvance) == x0 + GoDiv(bw, 2)

subtitleX(x0, bw, subAdvance) == x0 + GoDiv(bw - subAdvance, 2)

subtitleY(sepY, pad, thick, sf) ==
    sepY + GoDiv(thick, 2) + gapAfterSeparator(pad) + Ceil(sf.ascent)

\* The Layout of the success path.
layoutFor(w, h, tf, sf, t, st) ==
    LET titleAdvance == Ceil(MeasureString(tf, t))
        subAdvance == Ceil(MeasureString(sf, st))
        titleHeight == lineHeight(tf)
        subtitleHeight == lineHeight(sf)
        pad == padding(w, h)
        bw == boxWidth(w, pad, titleAdvance, subAdvance)
        thick == lineThickness(h)
        bh == boxHeight(pad, titleHeight, subtitleHeight, thick)
        x0 == boxX0(w, bw)
        y0 == boxY0(h, bh)
        sepY == separatorY(y0, pad, titleHeight, thick)
    IN  [Width |-> w, Height |-> h,
         BoxX0 |-> x0, BoxY0 |-> y0, BoxX1 |-> x0 + bw, BoxY1 |-> y0 + bh,
         BoxWidth |-> bw, BoxHeight |-> bh, BoxRadius |-> radius(bw, bh),
         BoxOpacity |-> boxOpacityDefault, Padding |-> pad,
         SeparatorY |-> sepY, SeparatorThickness |-> thick,
         TitleX |-> titleX(x0, bw, titleAdvance),
         TitleY |-> titleY(y0, pad, tf),
         SubtitleX |-> subtitleX(x0, bw, subAdvance),
         SubtitleY |-> subtitleY(sepY, pad, thick, sf),
         TitleFontSize |-> Ceil(tf.ascent) + Ceil(tf.descent),
         SubtitleFontSize |-> Ceil(sf.ascent) + Ceil(sf.descent)]

ComputeLayoutForText(w, h, tf, sf, t, st) ==
    LET size == canvasSize(w, h)
    IN  IF facesMissing(tf, sf)
        THEN [layout |-> ZeroLayout, err |-> "layout: font face is nil"]
        ELSE [layout |-> layoutFor(size.w, size.h, tf, sf,
                                   t, st),
              err |-> nilError]

\* ------------------------------------------------------------------------
\* Images.  An image is its bounds (w, h) and, for a canvas, the layers
\* drawn on it in order; pixel values are not modelled.

NilImage == [nil |-> TRUE]

Image(w, h) == [w |-> w, h |-> h, layers |-> <<>>]

\* ceil(a / b) for a >= 0, b > 0.
CeilDiv(a, b) == (a + b - 1) \div b

\* Variant: the scaled image is returned as it is, without the crop.
resizeWithoutCrop(src, w, h) ==
    IF src.w = 0 \/ src.h = 0
    THEN [img |-> NilImage, err |-> "render: background has zero area"]
    ELSE LET byWidth == w * src.h >= h * src.w
             scaledW == IF byWidth THEN w ELSE CeilDiv(src.w * h, src.h)
             scaledH == IF byWidth THEN CeilDiv(src.h * w, src.w) ELSE h
         IN  [img |-> [w |-> scaledW, h |-> scaledH,
                       layers |-> <<[kind |-> "scaled", w |-> scaledW, h |-> scaledH,
                                     offsetX |-> 0, offsetY |-> 0]>>],
              err |-> nilError]

\* The float64 rounding of s * (num / den).  Where s * num / den is no
\* integer it is at least 1 / den away from one, far more than the rounding
\* error, and math.Ceil gives the exact ceiling.  Where it is an integer the
\* product lands on it or on the next float64 above or below it.  Among the
\* sizes the model draws it lands above for 29 * (3840 / 29) only: 3840 / 29
\* rounds up to 132.41379310344828 and 29 times that rounds to 3840 + 2^-41.
RoundsAbove == {<<29, 3840, 29>>}

\* int(math.Ceil(float64(s) * scale)) with scale = float64(num) / float64(den).
ceilScaled(s, num, den) ==
    CeilDiv(s * num, den) + (IF <<s, num, den>> \in RoundsAbove THEN 1 ELSE 0)

\* resizeAndCrop: cover scaling and a centered crop.  math.Max takes the
\* larger of the two ratios (compared exactly: the ratios of the sizes drawn
\* are far apart or equal); the cropped image is w x h whatever the scaled
\* size is.
resizeAndCrop(src, w, h) ==
    IF src.w = 0 \/ src.h = 0
    THEN [img |-> NilImage, err |-> "render: background has zero area"]
    ELSE LET byWidth == w * src.h >= h * src.w
             num == IF byWidth THEN w ELSE h
             den == IF byWidth THEN src.w ELSE src.h
             scaledW == ceilScaled(src.w, num, den)
             scaledH == ceilScaled(src.h, num, den)
             offsetX == GoDiv(scaledW - w, 2)
             offsetY == GoDiv(scaledH - h, 2)
         IN  [img |-> [w |-> w, h |-> h,
                       layers |-> <<[kind |-> "scaled", w |-> scaledW, h |-> scaledH,
                                     offsetX |-> offsetX, offsetY |-> offsetY]>>],
              err |-> nilError]

\* Variant: the canvas takes the size of the scaled background, before the crop.
newCanvasOfScaledSize(w, h, backgroundLayer) ==
    [w |-> backgroundLayer.layers[1].w, h |-> backgroundLayer.layers[1].h,
     layers |-> backgroundLayer.layers]

\* image.NewRGBA(image.Rect(0, 0, w, h)) with the background layer drawn on it.
newCanvas(w, h, backgroundLayer) ==
    [w |-> w, h |-> h, layers |-> backgroundLayer.layers]

\* Variant: the radius is clamped to half of the width only.
clampRadiusToWidth(r, w, h) == minInt(r, GoDiv(w, 2))

\* radius = minInt(radius, minInt(rect.Dx()/2, rect.Dy()/2))
clampRadius(r, w, h) == minInt(r, minInt(GoDiv(w, 2), GoDiv(h, 2)))

\* fillRoundedMask: the pixels of a w x h mask that it sets to opaque, the
\* test of its loop body applied to every pixel.
fillRoundedMask(w, h, r) ==
    {p \in (0..(w - 1)) \X (0..(h - 1)) :
        LET x == p[1]
            y == p[2]
            dx == IF x < r THEN r - 1 - x ELSE IF x >= w - r THEN x - (w - r) ELSE 0
            dy == IF y < r THEN r - 1 - y ELSE IF y >= h - r THEN y - (h - r) ELSE 0
        IN  IF (x >= r /\ x < w - r) \/ (y >= r /\ y < h - r)
            THEN TRUE
            ELSE dx * dx + dy * dy < r * r}

\* The mask drawRoundedRect builds for a positive radius: as large as the
\* rectangle, rasterized with the clamped radius.  With a radius <= 0 it
\* fills the rectangle and builds none.
roundedMask(x0, y0, x1, y1, r) ==
    IF r <= 0 THEN [nil |-> TRUE]
    ELSE LET w == x1 - x0
             h == y1 - y0
         IN  [w |-> w, h |-> h, radius |-> clampRadius(r, w, h),
              alpha |-> fillRoundedMask(w, h, clampRadius(r, w, h))]

\* drawRoundedRect: the radius is clamped to half of either side of the rectangle.
drawRoundedRect(dst, x0, y0, x1, y1, r, alpha) ==
    LET clamped == IF r <= 0 THEN 0
                   ELSE clampRadius(r, x1 - x0, y1 - y0)
    IN  [dst EXCEPT !.layers = Append(@, [kind |-> "panel", x0 |-> x0, y0 |-> y0,
                                          x1 |-> x1, y1 |-> y1, radius |-> clamped,
                                          alpha |-> alpha])]

\* image.Rect: the rectangle of two corners, swapped where needed to be well formed.
Rect(x0, y0, x1, y1) ==
    [x0 |-> minInt(x0, x1), y0 |-> minInt(y0, y1),
     x1 |-> maxInt(x0, x1), y1 |-> maxInt(y0, y1)]

\* Rectangle.Intersect with the bounds of dst, to which draw.Draw clips: the
\* pixels a drawing of r paints; the zero rectangle when there are none.
painted(dst, r) ==
    LET c == [x0 |-> maxInt(r.x0, 0), y0 |-> maxInt(r.y0, 0),
              x1 |-> minInt(r.x1, dst.w), y1 |-> minInt(r.y1, dst.h)]
    IN  IF c.x0 >= c.x1 \/ c.y0 >= c.y1
        THEN [x0 |-> 0, y0 |-> 0, x1 |-> 0, y1 |-> 0]
        ELSE c

\* Variant: the bar spans the padded box, whatever the text is.
drawSeparatorAcrossBox(dst, l, textWidth) ==
    LET thick == l.SeparatorThickness
        lineRect == Rect(l.BoxX0 + l.Padding, l.SeparatorY - GoDiv(thick, 2),
                         l.BoxX1 - l.Padding, l.SeparatorY + GoDiv(thick, 2))
    IN  [dst EXCEPT !.layers = Append(@, [kind |-> "separator",
                                          x0 |-> lineRect.x0, x1 |-> lineRect.x1,
                                          y0 |-> lineRect.y0, y1 |-> lineRect.y1,
                                          painted |-> painted(dst, lineRect)])]

\* drawSeparator: a bar as wide as the wider text plus a margin, inside the padded box.
drawSeparator(dst, l, textWidth) ==
    LET thick == l.SeparatorThickness
        maxWidth == l.BoxWidth - 2 * l.Padding
        tw == IF textWidth > maxWidth THEN maxWidth ELSE textWidth
        extra == maxInt(GoDiv(l.Padding, 4), 10)
        desiredWidth == IF tw + extra > maxWidth THEN maxWidth ELSE tw + extra
        startX == l.BoxX0 + GoDiv(l.BoxWidth - desiredWidth, 2)
        lineRect == Rect(startX, l.SeparatorY - GoDiv(thick, 2),
                         startX + desiredWidth, l.SeparatorY + GoDiv(thick, 2))
    IN  [dst EXCEPT !.layers = Append(@, [kind |-> "separator",
                                          x0 |-> lineRect.x0, x1 |-> lineRect.x1,
                                          y0 |-> lineRect.y0, y1 |-> lineRect.y1,
                                          painted |-> painted(dst, lineRect)])]

\* drawText: the text run drawn with its baseline starting at (x, y).
drawText(dst, face, text, x, y) ==
    IF face = NilFace
    THEN [img |-> dst, err |-> "render: font face is nil"]
    ELSE [img |-> [dst EXCEPT !.layers = Append(@, [kind |-> "text", text |-> text,
                                                    x |-> x, y |-> y])],
          err |-> nilError]

tooLong(label) ==
    "render: " \o label
        \o " text is too long for the selected image resolution, please reduce the text"

\* Variant: a text as wide as the limit is rejected too.
exceedsOrEqual(advance, maxWidth) == Ceil(advance) >= maxWidth

\* The comparison of validateTextWidth: the advance, rounded up, against the limit.
exceeds(advance, maxWidth) == Ceil(advance) > maxWidth

validateTextWidth(label, face, text, maxWidth) ==
    IF maxWidth <= 0 THEN tooLong(label)
    ELSE IF exceeds(MeasureString(face, text), maxWidth) THEN tooLong(label)
    ELSE nilError

\* Variant: the margin is rounded down.
roundMarginDown(w) == (3 * w) \div 20

\* int(math.Round(float64(w) * 0.15)) for w > 0: halves round away from zero.
roundMargin(w) == (3 * w + 10) \div 20

maxTextWidthForImage(imageWidth) ==
    IF imageWidth <= 0
    THEN [maxWidth |-> 0, err |-> "render: invalid image width " \o ToString(imageWidth)]
    ELSE LET margin == maxInt(24, roundMargin(imageWidth))
             maxWidth == imageWidth - 2 * margin
         IN  IF maxWidth <= 0
             THEN [maxWidth |-> 0,
                   err |-> "render: text is too long for the selected image resolution, please reduce the text"]
             ELSE [maxWidth |-> maxWidth, err |-> nilError]

\* ------------------------------------------------------------------------
\* State.

VARIABLES
    pc,               \* the statement the call is at
    bg,               \* Render's background argument
    targetName,       \* Render's target name argument
    buildID,          \* Render's build ID argument
    boldFontData,     \* the embedded bold font
    regularFontData,  \* the embedded regular font
    width, height,    \* the canvas size passed to ComputeLayoutForText
    title, subtitle,  \* the text labels
    titleFace, subtitleFace,
    layout,           \* the Layout ComputeLayoutForText returned
    backgroundLayer,  \* Render's scaled and cropped background
    canvas,           \* Render's canvas
    maxTextWidth,     \* Render's safe text width
    img, err,         \* the values returned
    parked,           \* the context of a second call, while the first one runs
    requests,         \* the HTTP requests issued, each with the response it got
    imageURL,         \* FetchBackground's image URL
    fs,               \* the file system: what each path holds
    fsBefore,         \* the file system as it was when the run started
    rootFS,           \* the rootfs argument of Install and of main
    args,             \* os.Args
    stderr,           \* the lines written to standard error
    exitCode,         \* the exit code of the process
    now,              \* the clock
    mask              \* the alpha mask drawRoundedRect rasterized last

inputs == <<bg, targetName, buildID, boldFontData, regularFontData, width, height>>

locals == <<title, subtitle, titleFace, subtitleFace, layout, backgroundLayer, canvas,
            maxTextWidth>>

\* The state outside a call of Render or ComputeLayoutForText.
outer ==
    <<parked, requests, imageURL, fs, fsBefore, rootFS, args, stderr, exitCode, now, mask>>

vars == <<pc, inputs, locals, img, err, outer>>

\* No second call.
NoCall == [pc |-> "none"]

\* No mask rasterized.
NoMask == [nil |-> TRUE]

\* The process is running.
Running == -1

\* Nothing but the call itself: no second caller, no request, no file system,
\* no process around it.
OuterIdle ==
    /\ parked = NoCall
    /\ requests = <<>>
    /\ imageURL = ""
    /\ fs = <<>>
    /\ fsBefore = <<>>
    /\ rootFS = <<>>
    /\ args = <<>>
    /\ stderr = <<>>
    /\ exitCode = Running
    /\ now = 0
    /\ mask = NoMask

\* ------------------------------------------------------------------------
\* The inputs the model draws.

Rep(c, n) == [i \in 1..n |-> c]

\* Texts of the shape the tests build: a run of wide glyphs, then narrow ones.
Bodies(maxW, maxN) == {Rep("W", a) \o Rep("i", b) : a \in 0..maxW, b \in 0..maxN}

\* White space before and after a text.
Wraps == {<< <<>>, <<>> >>, << <<" ">>, <<"\t">> >>, << <<"\n", " ">>, <<>> >>}

TargetNames ==
    {wr[1] \o body \o wr[2] :
        wr \in Wraps, body \in Bodies(MaxWide, MaxNarrow) \cup {<<"W", " ", "i">>}}

BuildIDs ==
    {wr[1] \o body \o wr[2] :
        wr \in {<< <<>>, <<>> >>, << <<" ">>, <<"\n">> >>},
        body \in Bodies(MaxSubWide, MaxSubNarrow)}

Backgrounds == {NilImage, Image(0, 64), Image(64, 0), Image(64, 64), Image(9, 16)}

EmbeddedFonts ==
    {<<BoldA, RegularA>>, <<BoldB, RegularB>>,
     <<BoldUnparsable, RegularA>>, <<BoldA, RegularNoFace>>}

\* ------------------------------------------------------------------------
\* Render, statement by statement.

\* titleSize and subtitleSize, in 1/1000 pt.
titleSize == TargetHeight * 60

subtitleSize == TargetHeight * 36

\* Variant: a failure returns the canvas composited so far.
failureWithCanvas(e) == [img |-> canvas, err |-> e]

\* What Render returns on a failure.
failure(e) == [img |-> NilImage, err |-> e]

Return(r) == pc' = "done" /\ img' = r.img /\ err' = r.err

Init ==
    /\ pc = "Render"
    /\ bg \in Backgrounds
    /\ targetName \in TargetNames
    /\ buildID \in BuildIDs
    /\ \E fonts \in EmbeddedFonts : boldFontData = fonts[1] /\ regularFontData = fonts[2]
    /\ width = TargetWidth
    /\ height = TargetHeight
    /\ title = <<>>
    /\ subtitle = <<>>
    /\ titleFace = NilFace
    /\ subtitleFace = NilFace
    /\ layout = ZeroLayout
    /\ backgroundLayer = NilImage
    /\ canvas = NilImage
    /\ maxTextWidth = 0
    /\ img = NilImage
    /\ err = nilError
    /\ OuterIdle

\* Variant: Render without its check of the background.
RenderWithoutBackgroundCheck ==
    /\ pc = "Render"
    /\ pc' = "labels"
    /\ UNCHANGED <<outer, inputs, locals, img, err>>

RenderCheckBackground ==
    /\ pc = "Render"
    /\ IF bg = NilImage
       THEN Return(failure("render: background is nil"))
       ELSE pc' = "labels" /\ UNCHANGED <<img, err>>
    /\ UNCHANGED <<outer, inputs, locals>>

RenderLabels ==
    /\ pc = "labels"
    /\ title' = titleLabel(targetName)
    /\ subtitle' = subtitleLabel(buildID)
    /\ pc' = "loadTitleFace"
    /\ UNCHANGED <<outer, inputs, titleFace, subtitleFace, layout, backgroundLayer, canvas,
                   maxTextWidth, img, err>>

RenderLoadTitleFace ==
    /\ pc = "loadTitleFace"
    /\ LET r == loadFace(boldFontData, titleSize)
       IN  IF r.err # nilError
           THEN Return(failure("render: load title font: " \o r.err))
                /\ UNCHANGED titleFace
           ELSE titleFace' = r.face /\ pc' = "loadSubtitleFace" /\ UNCHANGED <<img, err>>
    /\ UNCHANGED <<outer, inputs, title, subtitle, subtitleFace, layout, backgroundLayer, canvas,
                   maxTextWidth>>

RenderLoadSubtitleFace ==
    /\ pc = "loadSubtitleFace"
    /\ LET r == loadFace(regularFontData, subtitleSize)
       IN  IF r.err # nilError
           THEN Return(failure("render: load subtitle font: " \o r.err))
                /\ UNCHANGED subtitleFace
           ELSE subtitleFace' = r.face /\ pc' = "layout" /\ UNCHANGED <<img, err>>
    /\ UNCHANGED <<outer, inputs, title, subtitle, titleFace, layout, backgroundLayer, canvas,
                   maxTextWidth>>

RenderLayout ==
    /\ pc = "layout"
    /\ LET r == ComputeLayoutForText(width, height, titleFace, subtitleFace, title, subtitle)
       IN  IF r.err # nilError
           THEN Return(failure(r.err)) /\ UNCHANGED layout
           ELSE layout' = r.layout /\ pc' = "resizeAndCrop" /\ UNCHANGED <<img, err>>
    /\ UNCHANGED <<outer, inputs, title, subtitle, titleFace, subtitleFace, backgroundLayer,
                   canvas, maxTextWidth>>

\* Variant: the canvas is allocated before the background is looked at.
RenderResizeAndCropOnCanvas ==
    /\ pc = "resizeAndCrop"
    /\ canvas' = [w |-> layout.Width, h |-> layout.Height, layers |-> <<>>]
    /\ LET r == resizeAndCrop(bg, layout.Width, layout.Height)
       IN  IF r.err # nilError
           THEN Return(failure(r.err)) /\ UNCHANGED backgroundLayer
           ELSE backgroundLayer' = r.img /\ pc' = "drawPanel" /\ UNCHANGED <<img, err>>
    /\ UNCHANGED <<outer, inputs, title, subtitle, titleFace, subtitleFace, layout,
                   maxTextWidth>>

RenderResizeAndCrop ==
    /\ pc = "resizeAndCrop"
    /\ LET r == resizeAndCrop(bg, layout.Width, layout.Height)
       IN  IF r.err # nilError
           THEN Return(failure(r.err)) /\ UNCHANGED backgroundLayer
           ELSE backgroundLayer' = r.img /\ pc' = "drawPanel" /\ UNCHANGED <<img, err>>
    /\ UNCHANGED <<outer, inputs, title, subtitle, titleFace, subtitleFace, layout, canvas,
                   maxTextWidth>>

RenderDrawPanel ==
    /\ pc = "drawPanel"
    /\ canvas' = drawRoundedRect(newCanvas(layout.Width, layout.Height, backgroundLayer),
                                 layout.BoxX0, layout.BoxY0, layout.BoxX1, layout.BoxY1,
                                 layout.BoxRadius, layout.BoxOpacity)
    /\ pc' = "drawSeparator"
    /\ UNCHANGED <<outer, inputs, title, subtitle, titleFace, subtitleFace, layout,
                   backgroundLayer, maxTextWidth, img, err>>

RenderDrawSeparator ==
    /\ pc = "drawSeparator"
    /\ LET titleWidth == Ceil(MeasureString(titleFace, title))
           subtitleWidth == Ceil(MeasureString(subtitleFace, subtitle))
       IN  canvas' = drawSeparator(canvas, layout, maxInt(titleWidth, subtitleWidth))
    /\ pc' = "maxTextWidth"
    /\ UNCHANGED <<outer, inputs, title, subtitle, titleFace, subtitleFace, layout,
                   backgroundLayer, maxTextWidth, img, err>>

RenderMaxTextWidth ==
    /\ pc = "maxTextWidth"
    /\ LET r == maxTextWidthForImage(layout.Width)
       IN  IF r.err # nilError
           THEN Return(failure(r.err)) /\ UNCHANGED maxTextWidth
           ELSE maxTextWidth' = r.maxWidth /\ pc' = "validateTitle" /\ UNCHANGED <<img, err>>
    /\ UNCHANGED <<outer, inputs, title, subtitle, titleFace, subtitleFace, layout,
                   backgroundLayer, canvas>>

\* Variant: both lines are validated before the title is drawn, the
\* subtitle first.
RenderValidateSubtitleFirst ==
    /\ pc = "validateTitle"
    /\ LET s == validateTextWidth("subtitle", subtitleFace, subtitle, maxTextWidth)
           e == validateTextWidth("title", titleFace, title, maxTextWidth)
       IN  IF s # nilError
           THEN Return(failure(s))
           ELSE IF e # nilError
           THEN Return(failure(e))
           ELSE pc' = "drawTitle" /\ UNCHANGED <<img, err>>
    /\ UNCHANGED <<outer, inputs, locals>>

RenderValidateTitle ==
    /\ pc = "validateTitle"
    /\ LET e == validateTextWidth("title", titleFace, title, maxTextWidth)
       IN  IF e # nilError
           THEN Return(failure(e))
           ELSE pc' = "drawTitle" /\ UNCHANGED <<img, err>>
    /\ UNCHANGED <<outer, inputs, locals>>

RenderDrawTitle ==
    /\ pc = "drawTitle"
    /\ LET r == drawText(canvas, titleFace, title, layout.TitleX, layout.TitleY)
       IN  IF r.err # nilError
           THEN Return(failure(r.err)) /\ UNCHANGED canvas
           ELSE canvas' = r.img /\ pc' = "validateSubtitle" /\ UNCHANGED <<img, err>>
    /\ UNCHANGED <<outer, inputs, title, subtitle, titleFace, subtitleFace, layout,
                   backgroundLayer, maxTextWidth>>

RenderValidateSubtitle ==
    /\ pc = "validateSubtitle"
    /\ LET e == validateTextWidth("subtitle", subtitleFace, subtitle, maxTextWidth)
       IN  IF e # nilError
           THEN Return(failure(e))
           ELSE pc' = "drawSubtitle" /\ UNCHANGED <<img, err>>
    /\ UNCHANGED <<outer, inputs, locals>>

RenderDrawSubtitle ==
    /\ pc = "drawSubtitle"
    /\ LET r == drawText(canvas, subtitleFace, subtitle, layout.SubtitleX, layout.SubtitleY)
       IN  IF r.err # nilError
           THEN Return(failure(r.err)) /\ UNCHANGED canvas
           ELSE canvas' = r.img /\ Return([img |-> r.img, err |-> nilError])
    /\ UNCHANGED <<outer, inputs, title, subtitle, titleFace, subtitleFace, layout,
                   backgroundLayer, maxTextWidth>>

Next ==
    \/ RenderCheckBackground
    \/ RenderLabels
    \/ RenderLoadTitleFace
    \/ RenderLoadSubtitleFace
    \/ RenderLayout
    \/ RenderResizeAndCrop
    \/ RenderDrawPanel
    \/ RenderDrawSeparator
    \/ RenderMaxTextWidth
    \/ RenderValidateTitle
    \/ RenderDrawTitle
    \/ RenderValidateSubtitle
    \/ RenderDrawSubtitle

Spec == Init /\ [][Next]_vars

\* ------------------------------------------------------------------------
\* ComputeLayoutForText called on its own, as the layout tests call it.

LayoutWidths == {-1, 0, 100, 640, 3840}

LayoutHeights == {0, 90, 480, 2160}

\* Faces loaded for a canvas height, as mustFacesForHeight loads them.
FaceHeights == {480, 2160}

\* A font whose glyphs have advances and no height: ascent and descent 0.
FlatFont == Font("ok", 0, 0, 8921, 569, 1359)

TitleFaceArgs ==
    {NilFace} \cup {loadFace(BoldA, hh * 60).face : hh \in FaceHeights}
        \cup {loadFace(FlatFont, 480 * 60).face}

SubtitleFaceArgs ==
    {NilFace} \cup {loadFace(RegularA, hh * 36).face : hh \in FaceHeights}
        \cup {loadFace(FlatFont, 480 * 36).face}

TitleArgs == Bodies(MaxWide, MaxNarrow) \cup {StrTSSH}

SubtitleArgs == Bodies(MaxSubWide, MaxSubNarrow) \cup {StrBuildUnknown}

InitLayout ==
    /\ pc = "ComputeLayoutForText"
    /\ width \in LayoutWidths
    /\ height \in LayoutHeights
    /\ titleFace \in TitleFaceArgs
    /\ subtitleFace \in SubtitleFaceArgs
    /\ title \in TitleArgs
    /\ subtitle \in SubtitleArgs
    /\ layout = ZeroLayout
    /\ err = nilError
    /\ bg = NilImage
    /\ targetName = <<>>
    /\ buildID = <<>>
    /\ boldFontData = BoldA
    /\ regularFontData = RegularA
    /\ backgroundLayer = NilImage
    /\ canvas = NilImage
    /\ maxTextWidth = 0
    /\ img = NilImage
    /\ OuterIdle

LayoutCall ==
    /\ pc = "ComputeLayoutForText"
    /\ LET r == ComputeLayoutForText(width, height, titleFace, subtitleFace, title, subtitle)
       IN  layout' = r.layout /\ err' = r.err
    /\ pc' = "returned"
    /\ UNCHANGED <<outer, inputs, title, subtitle, titleFace, subtitleFace, backgroundLayer,
                   canvas, maxTextWidth, img>>

NextLayout == LayoutCall

SpecLayout == InitLayout /\ [][NextLayout]_vars

\* ------------------------------------------------------------------------
\* resizeAndCrop called on its own, on sources of every small size.

MaxSource == 6

\* Every small size, and a few sizes of other aspect ratios.
ResizeSources ==
    {Image(sw, sh) : sw \in 0..MaxSource, sh \in 0..MaxSource}
        \cup {Image(9, 16), Image(16, 9), Image(29, 29), Image(29, 17), Image(64, 64)}

ResizeWidths == {1, 2, 7, 64, TargetWidth}

ResizeHeights == {1, 3, 36, TargetHeight}

InitResize ==
    /\ pc = "resizeAndCrop"
    /\ bg \in ResizeSources
    /\ width \in ResizeWidths
    /\ height \in ResizeHeights
    /\ targetName = <<>>
    /\ buildID = <<>>
    /\ boldFontData = BoldA
    /\ regularFontData = RegularA
    /\ title = <<>>
    /\ subtitle = <<>>
    /\ titleFace = NilFace
    /\ subtitleFace = NilFace
    /\ layout = ZeroLayout
    /\ backgroundLayer = NilImage
    /\ canvas = NilImage
    /\ maxTextWidth = 0
    /\ img = NilImage
    /\ err = nilError
    /\ OuterIdle

ResizeCall ==
    /\ pc = "resizeAndCrop"
    /\ LET r == resizeAndCrop(bg, width, height)
       IN  backgroundLayer' = r.img /\ err' = r.err
    /\ pc' = "resized"
    /\ UNCHANGED <<outer, inputs, title, subtitle, titleFace, subtitleFace, layout, canvas,
                   maxTextWidth, img>>

NextResize == ResizeCall

SpecResize == InitResize /\ [][NextResize]_vars

\* ------------------------------------------------------------------------
\* drawRoundedRect called on its own, with small rectangles (large enough
\* for a radius of 4, the first that leaves a corner pixel out) and every
\* radius around their sizes.  (Within Render the panel is some thousand pixels
\* wide; there the model keeps its rectangle and radius, not its mask.)

MaxPanel == 9

\* image.Rect(0, 0, w, h) for every small w and h, and one rectangle away
\* from the origin.
PanelRects ==
    {Rect(0, 0, w, h) : w \in 0..MaxPanel, h \in 0..MaxPanel} \cup {Rect(2, 1, 11, 9)}

PanelRadii == -1..(MaxPanel \div 2 + 2)

InitMask ==
    /\ pc = "drawRoundedRect"
    /\ \E rect \in PanelRects, r \in PanelRadii :
          layout = [ZeroLayout EXCEPT !.BoxX0 = rect.x0, !.BoxY0 = rect.y0,
                                      !.BoxX1 = rect.x1, !.BoxY1 = rect.y1,
                                      !.BoxWidth = rect.x1 - rect.x0,
                                      !.BoxHeight = rect.y1 - rect.y0,
                                      !.BoxRadius = r]
    /\ canvas = Image(MaxPanel + 2, MaxPanel + 2)
    /\ bg = NilImage
    /\ width = MaxPanel + 2
    /\ height = MaxPanel + 2
    /\ targetName = <<>>
    /\ buildID = <<>>
    /\ boldFontData = BoldA
    /\ regularFontData = RegularA
    /\ title = <<>>
    /\ subtitle = <<>>
    /\ titleFace = NilFace
    /\ subtitleFace = NilFace
    /\ backgroundLayer = NilImage
    /\ maxTextWidth = 0
    /\ img = NilImage
    /\ err = nilError
    /\ OuterIdle

DrawRoundedRectCall ==
    /\ pc = "drawRoundedRect"
    /\ canvas' = drawRoundedRect(canvas, layout.BoxX0, layout.BoxY0, layout.BoxX1,
                                 layout.BoxY1, layout.BoxRadius, boxOpacityDefault)
    /\ mask' = roundedMask(layout.BoxX0, layout.BoxY0, layout.BoxX1, layout.BoxY1,
                           layout.BoxRadius)
    /\ pc' = "drawn"
    /\ UNCHANGED <<inputs, title, subtitle, titleFace, subtitleFace, layout, backgroundLayer,
                   maxTextWidth, img, err, parked, requests, imageURL, fs, fsBefore, rootFS,
                   args, stderr, exitCode, now>>

NextMask == DrawRoundedRectCall

SpecMask == InitMask /\ [][NextMask]_vars

\* ------------------------------------------------------------------------
\* maxTextWidthForImage called on its own, on every small image width.

MaxImageWidth == 400

ImageWidths == (-2..MaxImageWidth) \cup {1920, TargetWidth}

InitMaxTextWidth ==
    /\ pc = "maxTextWidthForImage"
    /\ width \in ImageWidths
    /\ height = TargetHeight
    /\ bg = NilImage
    /\ targetName = <<>>
    /\ buildID = <<>>
    /\ boldFontData = BoldA
    /\ regularFontData = RegularA
    /\ title = <<>>
    /\ subtitle = <<>>
    /\ titleFace = NilFace
    /\ subtitleFace = NilFace
    /\ layout = ZeroLayout
    /\ backgroundLayer = NilImage
    /\ canvas = NilImage
    /\ maxTextWidth = 0
    /\ img = NilImage
    /\ err = nilError
    /\ OuterIdle

MaxTextWidthCall ==
    /\ pc = "maxTextWidthForImage"
    /\ LET r == maxTextWidthForImage(width)
       IN  maxTextWidth' = r.maxWidth /\ err' = r.err
    /\ pc' = "measured"
    /\ UNCHANGED <<outer, inputs, title, subtitle, titleFace, subtitleFace, layout,
                   backgroundLayer, canvas, img>>

NextMaxTextWidth == MaxTextWidthCall

SpecMaxTextWidth == InitMaxTextWidth /\ [][NextMaxTextWidth]_vars

\* ------------------------------------------------------------------------
\* The file system.  A path is the sequence of its components (the empty
\* sequence is the empty string); fs gives what each path holds.

Absent == [kind |-> "absent"]

Dir(writable) == [kind |-> "dir", writable |-> writable]

\* A file and its content, a sequence of characters or of encoded images.
File(content) == [kind |-> "file", content |-> content]

\* A path below a directory that may not be searched.
Denied == [kind |-> "denied"]

ENOENT == "no such file or directory"

EACCES == "permission denied"

ENOTDIR == "not a directory"

EISDIR == "is a directory"

ENOSPC == "no space left on device"

parentOf(p) == SubSeq(p, 1, Len(p) - 1)

RECURSIVE PathString(_)
PathString(p) ==
    IF p = <<>> THEN ""
    ELSE IF Len(p) = 1 THEN p[1]
    ELSE PathString(parentOf(p)) \o "/" \o p[Len(p)]

\* The %q verb of fmt on a path.
Quote(p) == "\"" \o PathString(p) \o "\""

\* The message of an *os.PathError.
PathError(op, p, errno) == op \o " " \o PathString(p) \o ": " \o errno

\* os.Stat.
Stat(f, p) ==
    IF p = <<>> \/ f[p].kind = "absent" THEN [err |-> ENOENT, isDir |-> FALSE]
    ELSE IF f[p].kind = "denied" THEN [err |-> EACCES, isDir |-> FALSE]
    ELSE [err |-> nilError, isDir |-> f[p].kind = "dir"]

\* os.MkdirAll: the directory and its missing parents, made one by one.
RECURSIVE MkdirAll(_, _)
MkdirAll(f, p) ==
    IF p = <<>> \/ f[p].kind = "dir" THEN [fs |-> f, err |-> nilError]
    ELSE IF f[p].kind = "file" THEN [fs |-> f, err |-> PathError("mkdir", p, ENOTDIR)]
    ELSE IF f[p].kind = "denied" THEN [fs |-> f, err |-> PathError("mkdir", p, EACCES)]
    ELSE LET above == MkdirAll(f, parentOf(p))
         IN  IF above.err # nilError THEN above
             ELSE IF parentOf(p) = <<>> \/ above.fs[parentOf(p)].writable
             THEN [fs |-> [above.fs EXCEPT ![p] = Dir(TRUE)], err |-> nilError]
             ELSE [fs |-> above.fs, err |-> PathError("mkdir", p, EACCES)]

\* Variant: the file is opened for appending, not truncated.
OpenFileAppending(f, p) ==
    IF f[p].kind = "dir" THEN [fs |-> f, err |-> PathError("open", p, EISDIR)]
    ELSE IF f[p].kind = "file" THEN [fs |-> f, err |-> nilError]
    ELSE IF f[p].kind = "denied" THEN [fs |-> f, err |-> PathError("open", p, EACCES)]
    ELSE IF f[parentOf(p)].kind # "dir" THEN [fs |-> f, err |-> PathError("open", p, ENOENT)]
    ELSE IF ~f[parentOf(p)].writable THEN [fs |-> f, err |-> PathError("open", p, EACCES)]
    ELSE [fs |-> [f EXCEPT ![p] = File(<<>>)], err |-> nilError]

\* os.OpenFile with O_CREATE|O_WRONLY|O_TRUNC: the file is there and empty.
OpenFile(f, p) ==
    IF f[p].kind = "dir" THEN [fs |-> f, err |-> PathError("open", p, EISDIR)]
    ELSE IF f[p].kind = "file" THEN [fs |-> [f EXCEPT ![p] = File(<<>>)], err |-> nilError]
    ELSE IF f[p].kind = "denied" THEN [fs |-> f, err |-> PathError("open", p, EACCES)]
    ELSE IF f[parentOf(p)].kind # "dir" THEN [fs |-> f, err |-> PathError("open", p, ENOENT)]
    ELSE IF ~f[parentOf(p)].writable THEN [fs |-> f, err |-> PathError("open", p, EACCES)]
    ELSE [fs |-> [f EXCEPT ![p] = File(<<>>)], err |-> nilError]

\* Writing data to the open file p: all of it, or, when the device fails
\* (written = FALSE), all but its end.
Write(f, p, data, written) ==
    IF written
    THEN [fs |-> [f EXCEPT ![p].content = @ \o data], err |-> nilError]
    ELSE [fs |-> [f EXCEPT ![p].content = @ \o SubSeq(data, 1, Len(data) - 1)],
          err |-> PathError("write", p, ENOSPC)]

\* ------------------------------------------------------------------------
\* Install, statement by statement.

\* bmp.Encode's output.
BMP(image) == <<[format |-> "bmp", img |-> image]>>

\* jpeg.Encode's output at quality 92.
JPEG(image) == <<[format |-> "jpeg", quality |-> 92, img |-> image]>>

\* jpeg.Encode refuses images of 1 << 16 pixels or more in a dimension.
jpegTooLarge(image) == image.w >= 65536 \/ image.h >= 65536

bootDir(root) == root \o <<"boot">>

backgroundDir(root) == root \o <<"usr", "share", "backgrounds", "tssh">>

etcDir(root) == root \o <<"etc">>

splashPath(root) == bootDir(root) \o <<"splash.bmp">>

backgroundPath(root) == backgroundDir(root) \o <<"background.jpg">>

buildPath(root) == etcDir(root) \o <<"tssh.build">>

\* Variant: the line is a time stamp taken when it is written.
buildLineOfNow(id) == RFC3339(now) \o <<"\n">>

buildLine(id) == id \o <<"\n">>

\* What an action of Install leaves alone.
installFrame ==
    <<bg, targetName, buildID, boldFontData, regularFontData, width, height, locals, img,
      parked, requests, imageURL, fsBefore, rootFS, args, stderr, exitCode, now, mask>>

InstallReturn(e) == pc' = "installed" /\ err' = e

\* Variant: the image is checked before the rootfs.
InstallCheckImageFirst ==
    /\ pc = "Install"
    /\ LET info == Stat(fs, rootFS)
       IN  IF img = NilImage
           THEN InstallReturn("install: image is nil")
           ELSE IF rootFS = <<>>
           THEN InstallReturn("install: rootfs path is empty")
           ELSE IF info.err = ENOENT
           THEN InstallReturn("install: rootfs " \o Quote(rootFS) \o " does not exist")
           ELSE IF info.err # nilError
           THEN InstallReturn("install: stat rootfs: " \o PathError("stat", rootFS, info.err))
           ELSE IF ~info.isDir
           THEN InstallReturn("install: rootfs " \o Quote(rootFS) \o " is not a directory")
           ELSE pc' = "mkdirBoot" /\ UNCHANGED err
    /\ UNCHANGED <<fs, installFrame>>

InstallCheck ==
    /\ pc = "Install"
    /\ LET info == Stat(fs, rootFS)
       IN  IF rootFS = <<>>
           THEN InstallReturn("install: rootfs path is empty")
           ELSE IF info.err = ENOENT
           THEN InstallReturn("install: rootfs " \o Quote(rootFS) \o " does not exist")
           ELSE IF info.err # nilError
           THEN InstallReturn("install: stat rootfs: " \o PathError("stat", rootFS, info.err))
           ELSE IF ~info.isDir
           THEN InstallReturn("install: rootfs " \o Quote(rootFS) \o " is not a directory")
           ELSE IF img = NilImage
           THEN InstallReturn("install: image is nil")
           ELSE pc' = "mkdirBoot" /\ UNCHANGED err
    /\ UNCHANGED <<fs, installFrame>>

\* One round of the loop over the directories.
InstallMkdir(at, dir, next) ==
    /\ pc = at
    /\ LET made == MkdirAll(fs, dir)
       IN  /\ fs' = made.fs
           /\ IF made.err # nilError
              THEN InstallReturn("install: create dir " \o Quote(dir) \o ": " \o made.err)
              ELSE pc' = next /\ UNCHANGED err
    /\ UNCHANGED installFrame

InstallMkdirBoot == InstallMkdir("mkdirBoot", bootDir(rootFS), "mkdirBackground")

InstallMkdirBackground == InstallMkdir("mkdirBackground", backgroundDir(rootFS), "mkdirEtc")

InstallMkdirEtc == InstallMkdir("mkdirEtc", etcDir(rootFS), "writeBMP")

\* writeBMP, writeJPEG and writeText: open the file, write the data, close.
\* refused is the error of an encoder that rejects the image before writing.
InstallWrite(at, what, verb, path, data, refused, next) ==
    /\ pc = at
    /\ LET opened == OpenFile(fs, path)
       IN  IF opened.err # nilError
           THEN /\ fs' = opened.fs
                /\ InstallReturn("install: open " \o what \o " " \o Quote(path) \o ": "
                                    \o opened.err)
           ELSE IF refused # nilError
           THEN /\ fs' = opened.fs
                /\ InstallReturn("install: " \o verb \o " " \o what \o " " \o Quote(path)
                                    \o ": " \o refused)
           ELSE \E written \in BOOLEAN :
                   LET wrote == Write(opened.fs, path, data, written)
                   IN  /\ fs' = wrote.fs
                       /\ IF wrote.err # nilError
                          THEN InstallReturn("install: " \o verb \o " " \o what \o " "
                                               \o Quote(path) \o ": " \o wrote.err)
                          ELSE IF next = "installed"
                          THEN InstallReturn(nilError)
                          ELSE pc' = next /\ UNCHANGED err
    /\ UNCHANGED installFrame

InstallWriteBMP ==
    InstallWrite("writeBMP", "bmp", "encode", splashPath(rootFS), BMP(img), nilError,
                 "writeJPEG")

\* Variant: when background.jpg cannot be written the splash screen written
\* before is put back as it was.
InstallWriteJPEGRollingBack ==
    /\ pc = "writeJPEG"
    /\ LET path == backgroundPath(rootFS)
           opened == OpenFile(fs, path)
       IN  IF opened.err # nilError
           THEN /\ fs' = [opened.fs EXCEPT ![splashPath(rootFS)] = fsBefore[splashPath(rootFS)]]
                /\ InstallReturn("install: open jpeg " \o Quote(path) \o ": " \o opened.err)
           ELSE IF jpegTooLarge(img)
           THEN /\ fs' = [opened.fs EXCEPT ![splashPath(rootFS)] = fsBefore[splashPath(rootFS)]]
                /\ InstallReturn("install: encode jpeg " \o Quote(path)
                                    \o ": jpeg: image is too large to encode")
           ELSE /\ fs' = Write(opened.fs, path, JPEG(img), TRUE).fs
                /\ pc' = "writeText"
                /\ UNCHANGED err
    /\ UNCHANGED installFrame

InstallWriteJPEG ==
    InstallWrite("writeJPEG", "jpeg", "encode", backgroundPath(rootFS), JPEG(img),
                 IF jpegTooLarge(img) THEN "jpeg: image is too large to encode" ELSE nilError,
                 "writeText")

InstallWriteText ==
    InstallWrite("writeText", "metadata", "write", buildPath(rootFS), buildLine(buildID),
                 nilError, "installed")

\* ------------------------------------------------------------------------
\* Install called on its own, on rootfs trees of every shape.

RootDirs == {<<"rootfs">>, <<"missing">>, <<"file">>, <<"locked", "rootfs">>}

SubPaths ==
    {<<"boot">>, <<"boot", "splash.bmp">>,
     <<"usr">>, <<"usr", "share">>, <<"usr", "share", "backgrounds">>,
     <<"usr", "share", "backgrounds", "tssh">>,
     <<"usr", "share", "backgrounds", "tssh", "background.jpg">>,
     <<"etc">>, <<"etc", "tssh.build">>}

Paths == {<<"locked">>} \cup {root \o sub : root \in RootDirs, sub \in {<<>>} \cup SubPaths}

Old == <<"o", "l", "d">>

\* What boot (or etc) and the file in it may hold before the run.
DirAndFile ==
    {<<Absent, Absent>>, <<File(Old), Absent>>,
     <<Dir(TRUE), Absent>>, <<Dir(TRUE), File(Old)>>, <<Dir(TRUE), Dir(TRUE)>>,
     <<Dir(FALSE), Absent>>, <<Dir(FALSE), File(Old)>>}

\* What usr, the directories below it and background.jpg may hold.
UsrTrees ==
    {<<Absent, Absent, Absent>>, <<File(Old), Absent, Absent>>,
     <<Dir(FALSE), Absent, Absent>>,
     <<Dir(TRUE), Dir(TRUE), Absent>>, <<Dir(TRUE), Dir(TRUE), File(Old)>>,
     <<Dir(TRUE), Dir(TRUE), Dir(TRUE)>>, <<Dir(TRUE), Dir(FALSE), Absent>>}

\* The tree with a rootfs directory of the given content, a regular file
\* "file", nothing at "missing" and a directory "locked" closed to search.
Tree(rootWritable, boot, usr, etc) ==
    [p \in Paths |->
        IF p = <<"rootfs">> THEN Dir(rootWritable)
        ELSE IF p = <<"file">> THEN File(<<"x">>)
        ELSE IF p = <<"locked">> THEN Dir(FALSE)
        ELSE IF p = <<"locked", "rootfs">> THEN Denied
        ELSE IF p = <<"rootfs", "boot">> THEN boot[1]
        ELSE IF p = <<"rootfs", "boot", "splash.bmp">> THEN boot[2]
        ELSE IF p = <<"rootfs", "usr">> THEN usr[1]
        ELSE IF p \in {<<"rootfs", "usr", "share">>, <<"rootfs", "usr", "share", "backgrounds">>}
        THEN (IF usr[2] = Absent THEN Absent ELSE Dir(TRUE))
        ELSE IF p = <<"rootfs", "usr", "share", "backgrounds", "tssh">> THEN usr[2]
        ELSE IF p = <<"rootfs", "usr", "share", "backgrounds", "tssh", "background.jpg">>
        THEN usr[3]
        ELSE IF p = <<"rootfs", "etc">> THEN etc[1]
        ELSE IF p = <<"rootfs", "etc", "tssh.build">> THEN etc[2]
        ELSE Absent]

FileSystems ==
    {Tree(rootWritable, boot, usr, etc) :
        rootWritable \in BOOLEAN, boot \in DirAndFile, usr \in UsrTrees, etc \in DirAndFile}

InstallRoots == {<<>>} \cup RootDirs

InstallImages == {NilImage, Image(3, 2), Image(65536, 1)}

MaxBuildID == 1

InstallBuildIDs == {Rep("b", n) : n \in 0..MaxBuildID}

InitInstall ==
    /\ pc = "Install"
    /\ rootFS \in InstallRoots
    /\ img \in InstallImages
    /\ buildID \in InstallBuildIDs
    /\ fs \in FileSystems
    /\ fsBefore = fs
    /\ err = nilError
    /\ bg = NilImage
    /\ targetName = <<>>
    /\ boldFontData = BoldA
    /\ regularFontData = RegularA
    /\ width = TargetWidth
    /\ height = TargetHeight
    /\ title = <<>>
    /\ subtitle = <<>>
    /\ titleFace = NilFace
    /\ subtitleFace = NilFace
    /\ layout = ZeroLayout
    /\ backgroundLayer = NilImage
    /\ canvas = NilImage
    /\ maxTextWidth = 0
    /\ parked = NoCall
    /\ requests = <<>>
    /\ imageURL = ""
    /\ args = <<>>
    /\ stderr = <<>>
    /\ exitCode = Running
    /\ now = 0
    /\ mask = NoMask

NextInstall ==
    \/ InstallCheck
    \/ InstallMkdirBoot
    \/ InstallMkdirBackground
    \/ InstallMkdirEtc
    \/ InstallWriteBMP
    \/ InstallWriteJPEG
    \/ InstallWriteText

SpecInstall == InitInstall /\ [][NextInstall]_vars

\* ------------------------------------------------------------------------
\* FetchBackground: the search request, then the download.

\* buildSearchURL with DefaultSearchParams; url.Values.Encode sorts the keys.
buildSearchURL(w, h) ==
    "https://wallhaven.cc/api/v1/search?categories=100&purity=100&q=nature&resolutions="
        \o ToString(w) \o "x" \o ToString(h) \o "&sorting=random"

\* What http.Get may come back with: an error, or a status and a body.
transportError == [failed |-> TRUE, status |-> 0, body |-> [json |-> FALSE]]

response(status, body) == [failed |-> FALSE, status |-> status, body |-> body]

Statuses == {200, 299, 300, 404}

SearchBodies ==
    {[json |-> FALSE],
     [json |-> TRUE, data |-> <<>>],
     [json |-> TRUE, data |-> <<[path |-> ""], [path |-> "https://w.wallhaven.cc/full/b.jpg"]>>],
     [json |-> TRUE, data |-> <<[path |-> "https://w.wallhaven.cc/full/a.jpg"],
                                [path |-> "https://w.wallhaven.cc/full/b.jpg"]>>]}

ImageBodies ==
    {[decodes |-> FALSE], [decodes |-> TRUE, image |-> Image(64, 64)],
     [decodes |-> TRUE, image |-> Image(4, 3)]}

SearchResponses == {transportError} \cup {response(st, b) : st \in Statuses, b \in SearchBodies}

ImageResponses ==
    {[failed |-> TRUE, status |-> 0, body |-> [decodes |-> FALSE]]}
        \cup {response(st, b) : st \in Statuses, b \in ImageBodies}

\* Variant: every status below 400 is taken for a success.
below400(status) == status < 400

\* Not (StatusCode < http.StatusOK || StatusCode >= http.StatusMultipleChoices).
is2xx(status) == ~(status < 200 \/ status >= 300)

sizeString(w, h) == ToString(w) \o "x" \o ToString(h)

\* What an action of FetchBackground leaves alone.
fetchFrame ==
    <<targetName, buildID, boldFontData, regularFontData, width, height, locals, img,
      parked, fs, fsBefore, rootFS, args, stderr, exitCode, now, mask>>

FetchReturn(image, e) == pc' = "fetched" /\ bg' = image /\ err' = e

FetchBackground ==
    /\ pc = "FetchBackground"
    /\ IF width <= 0 \/ height <= 0
       THEN FetchReturn(NilImage, "fetch background: invalid target size "
                                      \o sizeString(width, height))
       ELSE pc' = "fetchImageURL" /\ UNCHANGED <<bg, err>>
    /\ UNCHANGED <<requests, imageURL, fetchFrame>>

fetchImageURL ==
    /\ pc = "fetchImageURL"
    /\ \E resp \in SearchResponses :
          /\ requests' = Append(requests, [url |-> buildSearchURL(width, height),
                                           response |-> resp])
          /\ IF resp.failed
             THEN /\ FetchReturn(NilImage, "fetch background: search request failed: "
                                               \o "<transport error>")
                  /\ UNCHANGED imageURL
             ELSE IF ~is2xx(resp.status)
             THEN /\ FetchReturn(NilImage, "fetch background: search request returned http "
                                               \o ToString(resp.status))
                  /\ UNCHANGED imageURL
             ELSE IF ~resp.body.json
             THEN /\ FetchReturn(NilImage, "fetch background: decode search failed: "
                                               \o "<json error>")
                  /\ UNCHANGED imageURL
             ELSE IF Len(resp.body.data) = 0 \/ resp.body.data[1].path = ""
             THEN /\ FetchReturn(NilImage, "fetch background: no usable image for "
                                               \o sizeString(width, height))
                  /\ UNCHANGED imageURL
             ELSE /\ imageURL' = resp.body.data[1].path
                  /\ pc' = "downloadAndDecode"
                  /\ UNCHANGED <<bg, err>>
    /\ UNCHANGED fetchFrame

\* Variant: the body is decoded whatever the status of the image response.
downloadAndDecodeAnyStatus ==
    /\ pc = "downloadAndDecode"
    /\ \E resp \in ImageResponses :
          /\ requests' = Append(requests, [url |-> imageURL, response |-> resp])
          /\ IF resp.failed
             THEN FetchReturn(NilImage, "fetch background: image request failed: "
                                           \o "<transport error>")
             ELSE IF ~resp.body.decodes
             THEN FetchReturn(NilImage, "fetch background: decode failed: "
                                           \o "<image error>")
             ELSE FetchReturn(resp.body.image, nilError)
    /\ UNCHANGED <<imageURL, fetchFrame>>

downloadAndDecode ==
    /\ pc = "downloadAndDecode"
    /\ \E resp \in ImageResponses :
          /\ requests' = Append(requests, [url |-> imageURL, response |-> resp])
          /\ IF resp.failed
             THEN FetchReturn(NilImage, "fetch background: image request failed: "
                                           \o "<transport error>")
             ELSE IF ~is2xx(resp.status)
             THEN FetchReturn(NilImage, "fetch background: image request returned http "
                                           \o ToString(resp.status))
             ELSE IF ~resp.body.decodes
             THEN FetchReturn(NilImage, "fetch background: decode failed: "
                                           \o "<image error>")
             ELSE FetchReturn(resp.body.image, nilError)
    /\ UNCHANGED <<imageURL, fetchFrame>>

\* FetchBackground called on its own.

FetchWidths == {-1, 0, 1920, TargetWidth}

FetchHeights == {0, 1080, TargetHeight}

InitFetch ==
    /\ pc = "FetchBackground"
    /\ width \in FetchWidths
    /\ height \in FetchHeights
    /\ requests = <<>>
    /\ imageURL = ""
    /\ bg = NilImage
    /\ err = nilError
    /\ targetName = <<>>
    /\ buildID = <<>>
    /\ boldFontData = BoldA
    /\ regularFontData = RegularA
    /\ title = <<>>
    /\ subtitle = <<>>
    /\ titleFace = NilFace
    /\ subtitleFace = NilFace
    /\ layout = ZeroLayout
    /\ backgroundLayer = NilImage
    /\ canvas = NilImage
    /\ maxTextWidth = 0
    /\ img = NilImage
    /\ parked = NoCall
    /\ fs = <<>>
    /\ fsBefore = <<>>
    /\ rootFS = <<>>
    /\ args = <<>>
    /\ stderr = <<>>
    /\ exitCode = Running
    /\ now = 0
    /\ mask = NoMask

NextFetch ==
    \/ FetchBackground
    \/ fetchImageURL
    \/ downloadAndDecode

SpecFetch == InitFetch /\ [][NextFetch]_vars

\* ------------------------------------------------------------------------
\* main: the command line, Generate, Install, the exit code.

MaxClock == 2

usageLine == "Usage: ts-release <target-name> <rootfs-dir>"

\* What an action of main itself leaves alone.
mainFrame ==
    <<bg, boldFontData, regularFontData, width, height, locals, parked, requests,
      imageURL, fs, fsBefore, args, now, mask>>

\* os.Exit(code), after the lines written to standard error.
exit(lines, code) ==
    pc' = "exited" /\ stderr' = stderr \o lines /\ exitCode' = code

\* Variant: an empty target name is let through.
mainAnyName ==
    /\ pc = "main"
    /\ IF Len(args) # 3
       THEN exit(<<usageLine>>, 1) /\ UNCHANGED <<targetName, rootFS>>
       ELSE /\ targetName' = args[2]
            /\ rootFS' = args[3]
            /\ LET info == Stat(fs, args[3])
               IN  IF info.err # nilError \/ ~info.isDir
                   THEN exit(<<usageLine>>, 1)
                   ELSE pc' = "buildID" /\ UNCHANGED <<stderr, exitCode>>
    /\ UNCHANGED <<buildID, img, err, mainFrame>>

\* main, up to the check of the rootfs.
main ==
    /\ pc = "main"
    /\ IF Len(args) # 3
       THEN exit(<<usageLine>>, 1) /\ UNCHANGED <<targetName, rootFS>>
       ELSE /\ targetName' = args[2]
            /\ rootFS' = args[3]
            /\ LET info == Stat(fs, args[3])
               IN  IF args[2] = <<>>
                   THEN exit(<<usageLine>>, 1)
                   ELSE IF info.err # nilError \/ ~info.isDir
                   THEN exit(<<usageLine>>, 1)
                   ELSE pc' = "buildID" /\ UNCHANGED <<stderr, exitCode>>
    /\ UNCHANGED <<buildID, img, err, mainFrame>>

\* buildID := time.Now().UTC().Format(time.RFC3339)
mainBuildID ==
    /\ pc = "buildID"
    /\ buildID' = RFC3339(now)
    /\ pc' = "FetchBackground"
    /\ UNCHANGED <<targetName, rootFS, img, err, stderr, exitCode, mainFrame>>

\* Generate, after FetchBackground returned: its error, or the call of Render.
Generate ==
    /\ pc = "fetched"
    /\ IF err # nilError
       THEN pc' = "done" /\ img' = NilImage
       ELSE pc' = "Render" /\ UNCHANGED img
    /\ UNCHANGED <<targetName, buildID, rootFS, err, stderr, exitCode, mainFrame>>

\* main, after Generate returned: its error, or the call of Install.
mainInstall ==
    /\ pc = "done"
    /\ IF err # nilError
       THEN exit(<<err>>, 1)
       ELSE pc' = "Install" /\ UNCHANGED <<stderr, exitCode>>
    /\ UNCHANGED <<targetName, buildID, rootFS, img, err, mainFrame>>

\* main, after Install returned.
mainExit ==
    /\ pc = "installed"
    /\ IF err # nilError THEN exit(<<err>>, 1) ELSE exit(<<>>, 0)
    /\ UNCHANGED <<targetName, buildID, rootFS, img, err, mainFrame>>

\* A second passes.
Tick ==
    /\ now < MaxClock
    /\ pc # "exited"
    /\ now' = now + 1
    /\ UNCHANGED <<pc, inputs, locals, img, err, parked, requests, imageURL, fs, fsBefore,
                   rootFS, args, stderr, exitCode, mask>>

Program == <<"t", "s">>

ArgLists ==
    {<<Program>>, <<Program, <<"-", "h">> >>, <<Program, <<"W">>, <<"rootfs">>, <<"W">> >>}
    \cup {<<Program, name, root>> :
            name \in {<<>>, <<" ">>, <<"W", "i">>, Rep("W", MaxWide) \o <<"i">>},
            root \in InstallRoots}

MainFileSystems ==
    {Tree(rootWritable, boot, <<Absent, Absent, Absent>>, etc) :
        rootWritable \in BOOLEAN,
        boot \in {<<Absent, Absent>>, <<Dir(TRUE), File(Old)>>},
        etc \in {<<Absent, Absent>>, <<Dir(TRUE), File(Old)>>, <<Dir(TRUE), Dir(TRUE)>>}}

InitMain ==
    /\ pc = "main"
    /\ args \in ArgLists
    /\ fs \in MainFileSystems
    /\ fsBefore = fs
    /\ now = 0
    /\ mask = NoMask
    /\ stderr = <<>>
    /\ exitCode = Running
    /\ boldFontData = BoldA
    /\ regularFontData = RegularA
    /\ width = TargetWidth
    /\ height = TargetHeight
    /\ targetName = <<>>
    /\ buildID = <<>>
    /\ rootFS = <<>>
    /\ bg = NilImage
    /\ title = <<>>
    /\ subtitle = <<>>
    /\ titleFace = NilFace
    /\ subtitleFace = NilFace
    /\ layout = ZeroLayout
    /\ backgroundLayer = NilImage
    /\ canvas = NilImage
    /\ maxTextWidth = 0
    /\ img = NilImage
    /\ err = nilError
    /\ parked = NoCall
    /\ requests = <<>>
    /\ imageURL = ""

NextMain ==
    \/ main
    \/ mainBuildID
    \/ FetchBackground
    \/ fetchImageURL
    \/ downloadAndDecode
    \/ Generate
    \/ Next
    \/ mainInstall
    \/ NextInstall
    \/ mainExit
    \/ Tick

SpecMain == InitMain /\ [][NextMain]_vars

\* ------------------------------------------------------------------------
\* Render as one function of its arguments and the embedded fonts: its
\* statements composed in program order.

RenderDrawn(b, l, tf, sf, t, st) ==
    LET backgroundOf == resizeAndCrop(b, l.Width, l.Height)
        panel == drawRoundedRect(newCanvas(l.Width, l.Height, backgroundOf.img),
                                 l.BoxX0, l.BoxY0, l.BoxX1, l.BoxY1,
                                 l.BoxRadius, l.BoxOpacity)
        separated == drawSeparator(panel, l, maxInt(Ceil(MeasureString(tf, t)),
                                                    Ceil(MeasureString(sf, st))))
        safe == maxTextWidthForImage(l.Width)
        titleErr == validateTextWidth("title", tf, t, safe.maxWidth)
        titled == drawText(separated, tf, t, l.TitleX, l.TitleY)
        subtitleErr == validateTextWidth("subtitle", sf, st, safe.maxWidth)
        subtitled == drawText(titled.img, sf, st, l.SubtitleX, l.SubtitleY)
    IN  IF backgroundOf.err # nilError THEN failure(backgroundOf.err)
        ELSE IF safe.err # nilError THEN failure(safe.err)
        ELSE IF titleErr # nilError THEN failure(titleErr)
        ELSE IF titled.err # nilError THEN failure(titled.err)
        ELSE IF subtitleErr # nilError THEN failure(subtitleErr)
        ELSE IF subtitled.err # nilError THEN failure(subtitled.err)
        ELSE [img |-> subtitled.img, err |-> nilError]

Render(b, name, id, bold, regular) ==
    LET t == titleLabel(name)
        st == subtitleLabel(id)
        tf == loadFace(bold, titleSize)
        sf == loadFace(regular, subtitleSize)
        l == ComputeLayoutForText(TargetWidth, TargetHeight, tf.face, sf.face, t, st)
    IN  IF b = NilImage THEN failure("render: background is nil")
        ELSE IF tf.err # nilError THEN failure("render: load title font: " \o tf.err)
        ELSE IF sf.err # nilError THEN failure("render: load subtitle font: " \o sf.err)
        ELSE IF l.err # nilError THEN failure(l.err)
        ELSE RenderDrawn(b, l.layout, tf.face, sf.face, t, st)

\* ------------------------------------------------------------------------
\* Two calls of the core, each of Render or of ComputeLayoutForText, run by
\* two goroutines: one runs, the other is parked, and the scheduler may
\* switch between them at every statement.  The arguments, locals and
\* results of a call are its own; the embedded fonts are package-level.

current ==
    [pc |-> pc, bg |-> bg, targetName |-> targetName, buildID |-> buildID,
     width |-> width, height |-> height, title |-> title, subtitle |-> subtitle,
     titleFace |-> titleFace, subtitleFace |-> subtitleFace, layout |-> layout,
     backgroundLayer |-> backgroundLayer, canvas |-> canvas,
     maxTextWidth |-> maxTextWidth, img |-> img, err |-> err]

\* Variant: the labels are kept in package-level variables, shared by the calls.
resumeSharingLabels(c) ==
    /\ pc' = c.pc /\ bg' = c.bg /\ targetName' = c.targetName /\ buildID' = c.buildID
    /\ width' = c.width /\ height' = c.height
    /\ UNCHANGED <<title, subtitle>>
    /\ titleFace' = c.titleFace /\ subtitleFace' = c.subtitleFace /\ layout' = c.layout
    /\ backgroundLayer' = c.backgroundLayer /\ canvas' = c.canvas
    /\ maxTextWidth' = c.maxTextWidth /\ img' = c.img /\ err' = c.err

\* The call of context c runs on.
resume(c) ==
    /\ pc' = c.pc /\ bg' = c.bg /\ targetName' = c.targetName /\ buildID' = c.buildID
    /\ width' = c.width /\ height' = c.height
    /\ title' = c.title /\ subtitle' = c.subtitle
    /\ titleFace' = c.titleFace /\ subtitleFace' = c.subtitleFace /\ layout' = c.layout
    /\ backgroundLayer' = c.backgroundLayer /\ canvas' = c.canvas
    /\ maxTextWidth' = c.maxTextWidth /\ img' = c.img /\ err' = c.err

Switch ==
    /\ parked # NoCall
    /\ parked' = current
    /\ resume(parked)
    /\ UNCHANGED <<boldFontData, regularFontData, requests, imageURL, fs, fsBefore, rootFS,
                   args, stderr, exitCode, now, mask>>

\* A call of Render about to start.
RenderCallOf(b, name, id) ==
    [pc |-> "Render", bg |-> b, targetName |-> name, buildID |-> id,
     width |-> TargetWidth, height |-> TargetHeight, title |-> <<>>, subtitle |-> <<>>,
     titleFace |-> NilFace, subtitleFace |-> NilFace, layout |-> ZeroLayout,
     backgroundLayer |-> NilImage, canvas |-> NilImage, maxTextWidth |-> 0,
     img |-> NilImage, err |-> nilError]

\* A call of ComputeLayoutForText about to start.
LayoutCallOf(w, h, tf, sf, t, st) ==
    [pc |-> "ComputeLayoutForText", bg |-> NilImage, targetName |-> <<>>, buildID |-> <<>>,
     width |-> w, height |-> h, title |-> t, subtitle |-> st,
     titleFace |-> tf, subtitleFace |-> sf, layout |-> ZeroLayout,
     backgroundLayer |-> NilImage, canvas |-> NilImage, maxTextWidth |-> 0,
     img |-> NilImage, err |-> nilError]

Calls ==
    {RenderCallOf(b, name, id) :
        b \in {NilImage, Image(64, 64), Image(0, 64)},
        name \in {<<" ">>, Rep("W", MaxWide) \o <<"i">>},
        id \in {<<>>, <<"W", "W", "i">>}}
    \cup
    {LayoutCallOf(w, 480, tf, loadFace(RegularA, 480 * 36).face, t, StrBuildUnknown) :
        w \in {0, 640},
        tf \in {NilFace, loadFace(BoldA, 480 * 60).face},
        t \in {StrTSSH, Rep("W", MaxWide)}}

InitCalls ==
    /\ \E c \in Calls :
          /\ pc = c.pc /\ bg = c.bg /\ targetName = c.targetName /\ buildID = c.buildID
          /\ width = c.width /\ height = c.height
          /\ title = c.title /\ subtitle = c.subtitle
          /\ titleFace = c.titleFace /\ subtitleFace = c.subtitleFace
          /\ layout = c.layout /\ backgroundLayer = c.backgroundLayer
          /\ canvas = c.canvas /\ maxTextWidth = c.maxTextWidth
          /\ img = c.img /\ err = c.err
    /\ parked \in Calls
    /\ \E fonts \in {<<BoldA, RegularA>>, <<BoldB, RegularB>>, <<BoldA, RegularNoFace>>} :
          boldFontData = fonts[1] /\ regularFontData = fonts[2]
    /\ requests = <<>>
    /\ imageURL = ""
    /\ fs = <<>>
    /\ fsBefore = <<>>
    /\ rootFS = <<>>
    /\ args = <<>>
    /\ stderr = <<>>
    /\ exitCode = Running
    /\ now = 0
    /\ mask = NoMask

NextCalls ==
    \/ Next
    \/ LayoutCall
    \/ Switch

SpecCalls == InitCalls /\ [][NextCalls]_vars

\* ------------------------------------------------------------------------
\* Properties of Render (checked under Spec).

Done == pc = "done"

Failed == Done /\ err # nilError

Succeeded == Done /\ err = nilError

\* Render got as far as validating the text: the background is there and has
\* area, and both fonts load.
ReachesValidation ==
    /\ bg # NilImage
    /\ bg.w > 0 /\ bg.h > 0
    /\ boldFontData.status = "ok"
    /\ regularFontData.status = "ok"

\* C1: Render never returns an image together with an error: whenever it
\* returns an error the image is nil, on every failure path.
RenderNoImageWithError == Done => (err # nilError => img = NilImage)

\* A failure after the canvas was composited: the subtitle is too long.
RenderNoImageWithErrorWitness ==
    Failed /\ canvas # NilImage /\ Len(canvas.layers) >= 3 /\ err = tooLong("subtitle")

\* C2: with a nil background Render returns "background is nil" and a nil
\* image whatever the target name and build ID are, before anything else.
RenderNilBackground ==
    (bg = NilImage /\ pc # "Render")
        => (Done /\ img = NilImage /\ err = "render: background is nil"
            /\ locals = <<<<>>, <<>>, NilFace, NilFace, ZeroLayout, NilImage, NilImage, 0>>)

\* A nil background with a target name that would be too long and fonts
\* that would not load.
RenderNilBackgroundWitness ==
    /\ Done /\ bg = NilImage
    /\ Len(TrimSpace(targetName)) = MaxWide + MaxNarrow
    /\ boldFontData.status # "ok"

\* C3: the image of a successful Render is 3840 wide and 2160 high.
RenderTargetResolution ==
    Succeeded => (img # NilImage /\ img.w = 3840 /\ img.h = 2160)

\* A success on a background that is neither square nor of the target's aspect.
RenderTargetResolutionWitness ==
    Succeeded /\ bg.w = 9 /\ bg.h = 16 /\ img # NilImage

\* The rounded-up advance of a label, in pixels.
AdvancePx(face, text) == (MeasureString(face, text) + 63) \div 64

\* W - 2 * max(24, round(0.15 * W)) with W = 3840: round(576) = 576.
SafeWidth3840 == 3840 - 2 * 576

\* C4: Render fails with "too long", naming the line, exactly when that
\* line's advance rounded up exceeds 2688 (the title first); an advance of
\* exactly 2688 is accepted.
RenderTooLongExactly ==
    (Done /\ ReachesValidation) =>
        /\ maxTextWidth = SafeWidth3840
        /\ (err = "render: title text is too long for the selected image resolution, please reduce the text")
              <=> (AdvancePx(titleFace, title) > SafeWidth3840)
        /\ (err = "render: subtitle text is too long for the selected image resolution, please reduce the text")
              <=> (/\ AdvancePx(titleFace, title) <= SafeWidth3840
                   /\ AdvancePx(subtitleFace, subtitle) > SafeWidth3840)
        /\ (err = nilError)
              <=> (/\ AdvancePx(titleFace, title) <= SafeWidth3840
                   /\ AdvancePx(subtitleFace, subtitle) <= SafeWidth3840)

\* A title of exactly the safe width renders.
RenderTooLongExactlyWitness ==
    Succeeded /\ AdvancePx(titleFace, title) = SafeWidth3840

\* core is s without its leading and trailing white space.
IsTrimOf(core, s) ==
    \E i \in 0..Len(s), j \in 0..Len(s) :
        /\ i + j <= Len(s)
        /\ core = [k \in 1..(Len(s) - i - j) |-> s[i + k]]
        /\ \A k \in 1..i : s[k] \in Whitespace
        /\ \A k \in (Len(s) - j + 1)..Len(s) : s[k] \in Whitespace
        /\ core # <<>> => (core[1] \notin Whitespace /\ core[Len(core)] \notin Whitespace)

AllWhitespace(s) == \A k \in 1..Len(s) : s[k] \in Whitespace

TextLayers(image) == SelectSeq(image.layers, LAMBDA l : l.kind = "text")

\* C5: the title is "TSSH " and the trimmed target name, or "TSSH" when the
\* trimmed name is empty; the subtitle is the trimmed build ID, or "build
\* unknown" when it is empty; a white-space-only target name with an empty
\* build ID renders, drawing "TSSH" and "build unknown".
RenderLabelsDerived ==
    /\ (bg # NilImage /\ pc \notin {"Render", "labels"}) =>
          /\ IF AllWhitespace(targetName)
             THEN title = <<"T", "S", "S", "H">>
             ELSE /\ Len(title) > 5
                  /\ SubSeq(title, 1, 5) = <<"T", "S", "S", "H", " ">>
                  /\ IsTrimOf(SubSeq(title, 6, Len(title)), targetName)
          /\ IF AllWhitespace(buildID)
             THEN subtitle = <<"b", "u", "i", "l", "d", " ", "u", "n", "k", "n", "o", "w", "n">>
             ELSE IsTrimOf(subtitle, buildID)
    /\ (Done /\ ReachesValidation /\ AllWhitespace(targetName) /\ buildID = <<>>) =>
          /\ err = nilError
          /\ img # NilImage
          /\ Len(TextLayers(img)) = 2
          /\ TextLayers(img)[1].text = <<"T", "S", "S", "H">>
          /\ TextLayers(img)[2].text
                = <<"b", "u", "i", "l", "d", " ", "u", "n", "k", "n", "o", "w", "n">>

\* A white-space-only target name and an empty build ID, rendered.
RenderLabelsDerivedWitness ==
    Succeeded /\ targetName = <<" ", "\t">> /\ buildID = <<>>

\* The stages of Render in the order of its statements.
Stages ==
    <<"Render", "labels", "loadTitleFace", "loadSubtitleFace", "layout", "resizeAndCrop",
      "drawPanel", "drawSeparator", "maxTextWidth", "validateTitle", "drawTitle",
      "validateSubtitle", "drawSubtitle">>

StageIndex(p) == CHOOSE i \in 1..Len(Stages) : Stages[i] = p

\* What the locals hold when the stages before stage i have run and the
\* later ones have not.
RanUpTo(i) ==
    /\ (title = <<>>) <=> (i <= 2)
    /\ (subtitle = <<>>) <=> (i <= 2)
    /\ i <= 3 => titleFace = NilFace
    /\ i <= 4 => subtitleFace = NilFace
    /\ (layout = ZeroLayout) <=> (i <= 5)
    /\ (backgroundLayer = NilImage) <=> (i <= 6)
    /\ (canvas = NilImage) <=> (i <= 7)
    /\ i = 8 => Len(canvas.layers) = 2
    /\ i \in 9..11 => Len(canvas.layers) = 3
    /\ i \in 12..13 => Len(canvas.layers) = 4
    /\ (maxTextWidth = 0) <=> (i <= 9)

BothTooLong ==
    /\ AdvancePx(titleFace, title) > SafeWidth3840
    /\ AdvancePx(subtitleFace, subtitle) > SafeWidth3840

\* C22: Render runs its stages in one fixed order (labels, title face,
\* subtitle face, layout, resize and crop, panel, separator, max safe width,
\* validate title, draw title, validate subtitle, draw subtitle) and stops
\* at the first stage that fails: no later stage has run after a failure, a
\* line is drawn only after it passed validation, and with several bad
\* inputs the error is that of the earliest stage (zero-area background
\* before any too-long error, title too long before subtitle too long).
RenderStagesInOrder ==
    /\ [][pc' # pc =>
            \/ pc' = "done" /\ pc \in {Stages[i] : i \in 1..Len(Stages)}
            \/ /\ StageIndex(pc) < Len(Stages)
               /\ pc' = Stages[StageIndex(pc) + 1]]_vars
    /\ [](pc # "done" => RanUpTo(StageIndex(pc)))
    /\ []((Failed /\ err = "render: background is nil") => RanUpTo(1))
    /\ []((Failed /\ bg # NilImage /\ boldFontData.status # "ok") => RanUpTo(3))
    /\ []((Failed /\ bg # NilImage /\ boldFontData.status = "ok"
              /\ regularFontData.status # "ok") => RanUpTo(4))
    /\ []((Failed /\ err = "render: background has zero area") => RanUpTo(6))
    /\ []((Failed /\ err = tooLong("title")) => RanUpTo(10))
    /\ []((Failed /\ err = tooLong("subtitle")) => RanUpTo(12))
    /\ [](canvas # NilImage =>
            /\ Len(TextLayers(canvas)) >= 1 =>
                  (maxTextWidth > 0 /\ AdvancePx(titleFace, title) <= maxTextWidth)
            /\ Len(TextLayers(canvas)) >= 2 =>
                  (maxTextWidth > 0 /\ AdvancePx(subtitleFace, subtitle) <= maxTextWidth))
    /\ []((Done /\ bg # NilImage /\ (bg.w = 0 \/ bg.h = 0)) =>
            /\ err \notin {tooLong("title"), tooLong("subtitle"), nilError}
            /\ layout # ZeroLayout => err = "render: background has zero area")
    /\ []((Done /\ ReachesValidation /\ BothTooLong) => err = tooLong("title"))

\* Both lines are too long: the title's error is returned, with the panel
\* and the separator drawn and no text.
RenderStagesInOrderWitness ==
    /\ Failed /\ ReachesValidation /\ BothTooLong
    /\ err = tooLong("title")
    /\ RanUpTo(10)

\* A zero-area background with a title that is too long.
RenderZeroAreaFirstWitness ==
    /\ Failed /\ bg # NilImage /\ bg.w = 0
    /\ err = "render: background has zero area"
    /\ AdvancePx(titleFace, title) > SafeWidth3840

\* The errors that report a violated precondition.
PreconditionErrors ==
    {"render: background is nil", "layout: font face is nil",
     "render: background has zero area"}

\* C23 as stated: every precondition violation (absent background, absent
\* font faces, zero-area source image) is reported before any other work of
\* the render: no font has been loaded, no layout computed, no canvas
\* allocated, nothing drawn.
RenderPreconditionsBeforeAllWork ==
    (Failed /\ err \in PreconditionErrors) =>
        /\ titleFace = NilFace /\ subtitleFace = NilFace
        /\ layout = ZeroLayout
        /\ backgroundLayer = NilImage /\ canvas = NilImage

\* C23, amended: every precondition violation is reported before any image
\* is scaled, any canvas allocated or anything drawn; an absent background
\* is reported before any other work, a zero-area source image after the
\* labels were built, both faces loaded and the layout computed.
RenderPreconditionsBeforeDrawing ==
    /\ (Failed /\ err \in PreconditionErrors) =>
          /\ backgroundLayer = NilImage /\ canvas = NilImage /\ maxTextWidth = 0
          /\ img = NilImage
    /\ (Failed /\ err = "render: background is nil") => RanUpTo(1)
    /\ (Failed /\ err = "render: background has zero area") =>
          /\ RanUpTo(6)
          /\ titleFace = faceOf(boldFontData, titleSize)
          /\ subtitleFace = faceOf(regularFontData, subtitleSize)
          /\ layout = layoutFor(TargetWidth, TargetHeight, titleFace, subtitleFace,
                                title, subtitle)
    /\ (Done /\ bg # NilImage /\ (bg.w = 0 \/ bg.h = 0)
            /\ boldFontData.status = "ok" /\ regularFontData.status = "ok") =>
          err = "render: background has zero area"

\* A zero-area background, reported with the faces loaded and the layout
\* computed, and no canvas.
RenderPreconditionsBeforeDrawingWitness ==
    /\ Failed /\ err = "render: background has zero area"
    /\ bg.w = 64 /\ bg.h = 0
    /\ titleFace # NilFace /\ layout # ZeroLayout /\ canvas = NilImage

\* The separator layers of a canvas.
SeparatorLayers(image) == SelectSeq(image.layers, LAMBDA l : l.kind = "separator")

\* C24: the bar drawSeparator draws is vertically centered at SeparatorY
\* and as many pixel rows high as the layout's SeparatorThickness
\* = max(2, Height / 160), whether that is even or odd.
SeparatorHeightIsThickness ==
    (canvas # NilImage /\ SeparatorLayers(canvas) # <<>>) =>
        LET bar == SeparatorLayers(canvas)[1]
        IN  /\ layout.SeparatorThickness = maxInt(2, layout.Height \div 160)
            /\ bar.y0 <= layout.SeparatorY /\ layout.SeparatorY <= bar.y1
            /\ (layout.SeparatorY - bar.y0) - (bar.y1 - layout.SeparatorY) \in {-1, 0, 1}
            /\ bar.y1 - bar.y0 = layout.SeparatorThickness

\* C29: whenever Render succeeds at the fixed 3840-wide canvas the panel is
\* horizontally inside the canvas and both text runs are horizontally inside
\* the padded panel: 0 <= BoxX0, BoxX1 <= 3840, BoxX0 + Padding <= TitleX
\* and TitleX + title advance <= BoxX1 - Padding, and the same for the
\* subtitle.
RenderHorizontallyContained ==
    Succeeded =>
        /\ layout.Width = 3840
        /\ 0 <= layout.BoxX0 /\ layout.BoxX1 <= 3840
        /\ layout.BoxX0 + layout.Padding <= layout.TitleX
        /\ layout.TitleX + AdvancePx(titleFace, title) <= layout.BoxX1 - layout.Padding
        /\ layout.BoxX0 + layout.Padding <= layout.SubtitleX
        /\ layout.SubtitleX + AdvancePx(subtitleFace, subtitle)
              <= layout.BoxX1 - layout.Padding
        /\ TextLayers(img)[1].x = layout.TitleX
        /\ TextLayers(img)[2].x = layout.SubtitleX

\* A success with the subtitle as wide as the safe width allows: the panel
\* is wider than its default and the subtitle fills the padded panel.
RenderHorizontallyContainedWitness ==
    /\ Succeeded
    /\ AdvancePx(subtitleFace, subtitle) = SafeWidth3840
    /\ AdvancePx(titleFace, title) < SafeWidth3840
    /\ layout.BoxWidth > (3840 * boxWidthPercent) \div 100
    /\ layout.SubtitleX = layout.BoxX0 + layout.Padding
    /\ layout.SubtitleX + SafeWidth3840 = layout.BoxX1 - layout.Padding

\* ------------------------------------------------------------------------
\* Properties of ComputeLayoutForText (checked under SpecLayout).

Returned == pc = "returned"

LayoutOK == Returned /\ err = nilError

RefMax(a, b) == IF a >= b THEN a ELSE b

RefMin(a, b) == IF a <= b THEN a ELSE b

\* The canvas size the layout is for.
EffectiveW == IF width <= 0 \/ height <= 0 THEN 3840 ELSE width

EffectiveH == IF width <= 0 \/ height <= 0 THEN 2160 ELSE height

TitleAdvancePx == AdvancePx(titleFace, title)

SubAdvancePx == AdvancePx(subtitleFace, subtitle)

TitleLineHeight == (titleFace.ascent + titleFace.descent + 63) \div 64

SubtitleLineHeight == (subtitleFace.ascent + subtitleFace.descent + 63) \div 64

TitleAscent == (titleFace.ascent + 63) \div 64

SubtitleAscent == (subtitleFace.ascent + 63) \div 64

\* C6: with the title face nil or the subtitle face nil (either alone),
\* ComputeLayoutForText returns "font face is nil" and the zero Layout, for
\* every canvas size and text.
LayoutNilFace ==
    (Returned /\ (titleFace = [nil |-> TRUE] \/ subtitleFace = [nil |-> TRUE])) =>
        /\ err = "layout: font face is nil"
        /\ \A f \in DOMAIN layout : layout[f] = 0

\* Only the subtitle face is nil, on a canvas of non-positive size.
LayoutNilFaceWitness ==
    Returned /\ titleFace # NilFace /\ subtitleFace = NilFace /\ width <= 0

\* C7: a non-positive width or height is no error: the layout is computed
\* for, and reports, 3840 x 2160; positive sizes are reported as given.
LayoutDefaultSize ==
    (Returned /\ titleFace # NilFace /\ subtitleFace # NilFace) =>
        /\ err = nilError
        /\ (width <= 0 \/ height <= 0) =>
              /\ layout.Width = 3840 /\ layout.Height = 2160
              /\ layout = ComputeLayoutForText(3840, 2160, titleFace, subtitleFace,
                                               title, subtitle).layout
        /\ (width > 0 /\ height > 0) =>
              (layout.Width = width /\ layout.Height = height)

\* Only the height is non-positive.
LayoutDefaultSizeWitness ==
    LayoutOK /\ width > 0 /\ height <= 0 /\ layout.Width = 3840

\* C8: the fields of the Layout equal the reference formulas, with
\* truncating division.
LayoutReferenceFormulas ==
    LayoutOK =>
        LET pad == RefMax(14, RefMin(EffectiveW, EffectiveH) \div 20)
            thick == RefMax(2, EffectiveH \div 160)
            gapT == RefMax(pad \div 3, thick)
            gapS == pad \div 2
            panelH == pad + TitleLineHeight + gapT + thick + gapS + SubtitleLineHeight + pad
            sepY == layout.BoxY0 + pad + TitleLineHeight + gapT + thick \div 2
        IN  /\ layout.Padding = pad
            /\ layout.SeparatorThickness = thick
            /\ layout.BoxHeight = panelH
            /\ layout.BoxRadius = RefMax(10, RefMin(layout.BoxWidth, panelH) \div 9)
            /\ layout.SeparatorY = sepY
            /\ layout.TitleY = layout.BoxY0 + pad + TitleAscent
            /\ layout.SubtitleY = sepY + thick \div 2 + gapS + SubtitleAscent
            /\ layout.BoxOpacity = 200

\* A narrow, high canvas: the separator is thicker than a third of the
\* padding and its thickness is odd.
LayoutReferenceFormulasWitness ==
    LayoutOK /\ width = 100 /\ height = 2160 /\ layout.SeparatorThickness = 13

\* C9: BoxWidth = max(floor(0.48 W), max(titleAdvance, subtitleAdvance) +
\* 2 Padding): the panel is never narrower than the wider text plus twice
\* the padding.
LayoutContentDrivenWidth ==
    LayoutOK =>
        /\ layout.BoxWidth
              = RefMax((EffectiveW * 12) \div 25,
                       RefMax(TitleAdvancePx, SubAdvancePx) + 2 * layout.Padding)
        /\ layout.BoxWidth >= TitleAdvancePx + 2 * layout.Padding
        /\ layout.BoxWidth >= SubAdvancePx + 2 * layout.Padding

\* The subtitle is the wider text and it widens the panel.
LayoutContentDrivenWidthWitness ==
    /\ LayoutOK
    /\ SubAdvancePx > TitleAdvancePx
    /\ layout.BoxWidth = SubAdvancePx + 2 * layout.Padding
    /\ layout.BoxWidth > (EffectiveW * 12) \div 25

\* The panel lies in the canvas, is not empty, and holds both anchors.
PanelContained ==
    /\ layout.BoxX0 >= 0 /\ layout.BoxY0 >= 0
    /\ layout.BoxX1 <= layout.Width /\ layout.BoxY1 <= layout.Height
    /\ layout.BoxX1 > layout.BoxX0 /\ layout.BoxY1 > layout.BoxY0
    /\ layout.TitleX >= layout.BoxX0 /\ layout.TitleX <= layout.BoxX1
    /\ layout.TitleY >= layout.BoxY0 /\ layout.TitleY <= layout.BoxY1
    /\ layout.SubtitleX >= layout.BoxX0 /\ layout.SubtitleX <= layout.BoxX1
    /\ layout.SubtitleY >= layout.BoxY0 /\ layout.SubtitleY <= layout.BoxY1
    /\ layout.TitleX >= 0 /\ layout.TitleY >= 0
    /\ layout.SubtitleX >= 0 /\ layout.SubtitleY >= 0

\* C10 as stated: the panel is contained for all non-nil faces, any canvas
\* size and any text.
LayoutPanelContainedAlways == LayoutOK => PanelContained

\* The wider text plus twice the padding fits the canvas width, and the
\* panel height fits the canvas height.
PanelFits ==
    /\ RefMax(TitleAdvancePx, SubAdvancePx) + 2 * layout.Padding <= layout.Width
    /\ layout.BoxHeight <= layout.Height

\* C10 amended: the panel is contained whenever the content fits the canvas.
LayoutPanelContainedWhenFits == (LayoutOK /\ PanelFits) => PanelContained

\* A fitting layout whose width is driven by the text.
LayoutPanelContainedWhenFitsWitness ==
    /\ LayoutOK /\ PanelFits
    /\ layout.BoxWidth > (EffectiveW * 12) \div 25
    /\ layout.BoxX0 > 0

\* The quotient of a by b > 0, truncated toward zero.
RefQuot(a, b) == IF a >= 0 THEN a \div b ELSE -((-a) \div b)

Differ(a, b) == IF a >= b THEN a - b ELSE b - a

\* C11: the panel is centered in the canvas and both text runs are centered
\* in the panel: BoxX0 = (Width - BoxWidth)/2 and BoxY0 = (Height -
\* BoxHeight)/2, the margins left and right (top and bottom) of the panel
\* differ by at most one pixel, and so do the gaps left and right of the
\* title and of the subtitle inside the panel.
LayoutCentered ==
    LayoutOK =>
        /\ layout.BoxX0 = RefQuot(layout.Width - layout.BoxWidth, 2)
        /\ layout.BoxY0 = RefQuot(layout.Height - layout.BoxHeight, 2)
        /\ layout.BoxX1 = layout.BoxX0 + layout.BoxWidth
        /\ layout.BoxY1 = layout.BoxY0 + layout.BoxHeight
        /\ Differ(layout.BoxX0, layout.Width - layout.BoxX1) <= 1
        /\ Differ(layout.BoxY0, layout.Height - layout.BoxY1) <= 1
        /\ Differ(layout.TitleX - layout.BoxX0,
                  layout.BoxX1 - (layout.TitleX + TitleAdvancePx)) <= 1
        /\ Differ(layout.SubtitleX - layout.BoxX0,
                  layout.BoxX1 - (layout.SubtitleX + SubAdvancePx)) <= 1

\* A panel wider than the canvas by an odd number of pixels, with a title
\* whose gaps differ by one.
LayoutCenteredWitness ==
    /\ LayoutOK
    /\ layout.Width < layout.BoxWidth
    /\ (layout.BoxWidth - layout.Width) % 2 = 1
    /\ (layout.BoxWidth - TitleAdvancePx) % 2 = 1

\* The separator Render drew on its canvas.
Separator == canvas.layers[3]

SeparatorDrawn == canvas # NilImage /\ Len(canvas.layers) >= 3

\* C13: the separator follows the wider text, not the panel: with maxW =
\* BoxWidth - 2 Padding and textW = min(max(titleAdvance, subtitleAdvance),
\* maxW), the bar is min(textW + max(Padding/4, 10), maxW) columns wide and
\* starts at BoxX0 + (BoxWidth - that width)/2, whichever text is wider; it
\* lies inside [BoxX0 + Padding, BoxX1 - Padding]; in the image Render
\* returns exactly these columns are painted.
RenderSeparatorWidth ==
    SeparatorDrawn =>
        LET maxW == layout.BoxWidth - 2 * layout.Padding
            textW == RefMin(RefMax(AdvancePx(titleFace, title),
                                   AdvancePx(subtitleFace, subtitle)), maxW)
            wide == RefMin(textW + RefMax(layout.Padding \div 4, 10), maxW)
            start == layout.BoxX0 + RefQuot(layout.BoxWidth - wide, 2)
        IN  /\ Separator.kind = "separator"
            /\ Separator.x0 = start
            /\ Separator.x1 - Separator.x0 = wide
            /\ Separator.x0 >= layout.BoxX0 + layout.Padding
            /\ Separator.x1 <= layout.BoxX1 - layout.Padding
            /\ Succeeded =>
                  /\ img.layers[3] = Separator
                  /\ Separator.painted.x0 = start
                  /\ Separator.painted.x1 - Separator.painted.x0 = wide

\* A success with the subtitle the wider text, in a panel of the default
\* width: the bar is narrower than the padded panel.
RenderSeparatorWidthWitness ==
    /\ Succeeded /\ SeparatorDrawn
    /\ AdvancePx(subtitleFace, subtitle) > AdvancePx(titleFace, title)
    /\ Separator.x1 - Separator.x0
          = AdvancePx(subtitleFace, subtitle) + layout.Padding \div 4
    /\ Separator.x1 - Separator.x0 < layout.BoxWidth - 2 * layout.Padding

\* A success with the title the wider text and the bar clamped to the
\* padded panel.
RenderSeparatorClampedWitness ==
    /\ Succeeded /\ SeparatorDrawn
    /\ AdvancePx(titleFace, title) > AdvancePx(subtitleFace, subtitle)
    /\ Separator.x1 - Separator.x0 = layout.BoxWidth - 2 * layout.Padding

\* C28: for faces with non-negative ascent and descent every layout
\* ComputeLayoutForText returns stacks its elements top to bottom inside the
\* padded panel: BoxY0 + Padding <= TitleY < SeparatorY < SubtitleY
\* <= BoxY1 - Padding, and every sub-term of the panel height (padding, line
\* heights, both gaps, separator thickness) is non-negative.
LayoutStacked ==
    (LayoutOK /\ titleFace.ascent >= 0 /\ titleFace.descent >= 0
        /\ subtitleFace.ascent >= 0 /\ subtitleFace.descent >= 0) =>
        LET gapTitle == RefMax(layout.Padding \div 3, layout.SeparatorThickness)
            gapSeparator == layout.Padding \div 2
        IN  /\ layout.BoxY0 + layout.Padding <= layout.TitleY
            /\ layout.TitleY < layout.SeparatorY
            /\ layout.SeparatorY < layout.SubtitleY
            /\ layout.SubtitleY <= layout.BoxY1 - layout.Padding
            /\ layout.Padding >= 0
            /\ TitleLineHeight >= 0 /\ SubtitleLineHeight >= 0
            /\ gapTitle >= 0 /\ gapSeparator >= 0
            /\ layout.SeparatorThickness >= 0
            /\ layout.BoxHeight = layout.Padding + TitleLineHeight + gapTitle
                                    + layout.SeparatorThickness + gapSeparator
                                    + SubtitleLineHeight + layout.Padding
            /\ layout.BoxY1 = layout.BoxY0 + layout.BoxHeight

\* Faces without height: the title baseline is on the upper edge of the
\* padded panel and the subtitle baseline on the lower one.
LayoutStackedWitness ==
    /\ LayoutOK
    /\ titleFace.ascent = 0 /\ titleFace.descent = 0
    /\ subtitleFace.ascent = 0 /\ subtitleFace.descent = 0
    /\ layout.SeparatorThickness = 2
    /\ layout.TitleY = layout.BoxY0 + layout.Padding
    /\ layout.SubtitleY = layout.BoxY1 - layout.Padding

\* ------------------------------------------------------------------------
\* Properties of resizeAndCrop (checked under SpecResize).

\* C14: for every source of positive width and height, whatever its aspect
\* ratio, resizeAndCrop returns an image of exactly the target width and
\* height and no error; it fails, with a nil image and "background has zero
\* area", only when the width or the height of the source is zero.
ResizeExactSize ==
    pc = "resized" =>
        IF bg.w > 0 /\ bg.h > 0
        THEN /\ err = nilError
             /\ backgroundLayer # NilImage
             /\ backgroundLayer.w = width
             /\ backgroundLayer.h = height
        ELSE /\ err = "render: background has zero area"
             /\ backgroundLayer = NilImage

\* A narrow, high source scaled to a wide target: the scaled image is much
\* higher than the target.
ResizeExactSizeWitness ==
    /\ pc = "resized" /\ err = nilError
    /\ bg.w = 1 /\ bg.h = MaxSource
    /\ width = 3840 /\ height = 2160
    /\ backgroundLayer.layers[1].h > 2160

\* The scaled image resizeAndCrop built, with the offsets of its crop.
Scaled == backgroundLayer.layers[1]

Resized == pc = "resized" /\ err = nilError

\* C25: cover scaling never letterboxes: with scale = max(targetW / srcW,
\* targetH / srcH) in exact arithmetic the scaled image is ceil(srcW * scale)
\* by ceil(srcH * scale), at least the target in both dimensions and equal
\* to it in at least one; so both offsets are >= 0 and the crop window
\* [offset, offset + target) lies inside the scaled image, for every
\* positive source and target size.
CoverScalingExact ==
    Resized =>
        LET byWidth == width * bg.h >= height * bg.w
        IN  /\ Scaled.w = (IF byWidth THEN width ELSE CeilDiv(bg.w * height, bg.h))
            /\ Scaled.h = (IF byWidth THEN CeilDiv(bg.h * width, bg.w) ELSE height)
            /\ Scaled.w >= width /\ Scaled.h >= height
            /\ Scaled.w = width \/ Scaled.h = height
            /\ Scaled.offsetX >= 0 /\ Scaled.offsetY >= 0
            /\ Scaled.offsetX + width <= Scaled.w
            /\ Scaled.offsetY + height <= Scaled.h

\* C26: the crop is centered with equal trim on opposite sides: as many
\* scaled columns are discarded on the left as on the right, and as many
\* rows at the top as at the bottom, for every source and target size.
CropTrimsEqual ==
    Resized =>
        /\ Scaled.offsetX = Scaled.w - width - Scaled.offsetX
        /\ Scaled.offsetY = Scaled.h - height - Scaled.offsetY

\* ------------------------------------------------------------------------
\* Properties of drawRoundedRect (checked under SpecMask).

\* The corner quadrants of a w x h mask of radius r.
Quadrants(w, h, r) ==
    LET left == 0..(r - 1)
        right == (w - r)..(w - 1)
        top == 0..(r - 1)
        bottom == (h - r)..(h - 1)
    IN  <<left \X top, right \X top, left \X bottom, right \X bottom>>

\* The distance of x from the inner end of the corner it lies in, on an
\* axis of length n.
CornerDistance(x, n, r) == IF x < r THEN r - 1 - x ELSE x - (n - r)

\* C27: for a positive requested radius drawRoundedRect rasterizes with
\* r = min(radius, floor(w / 2), floor(h / 2)), so 2 r <= min(w, h); the
\* four corner quadrants of the mask never overlap; every pixel of the
\* cross region (r <= x < w - r or r <= y < h - r) is inside the shape, and
\* a pixel of a corner quadrant is inside iff dx^2 + dy^2 < r^2.
RoundedMaskClamped ==
    (pc = "drawn" /\ layout.BoxRadius > 0) =>
        LET w == layout.BoxWidth
            h == layout.BoxHeight
            r == mask.radius
            q == Quadrants(w, h, r)
        IN  /\ mask # NoMask
            /\ mask.w = w /\ mask.h = h
            /\ r = RefMin(layout.BoxRadius, RefMin(w \div 2, h \div 2))
            /\ r = canvas.layers[1].radius
            /\ 2 * r <= w /\ 2 * r <= h
            /\ \A i \in 1..4, j \in 1..4 : i # j => q[i] \cap q[j] = {}
            /\ mask.alpha \subseteq (0..(w - 1)) \X (0..(h - 1))
            /\ \A x \in 0..(w - 1), y \in 0..(h - 1) :
                  /\ ((r <= x /\ x < w - r) \/ (r <= y /\ y < h - r)) => <<x, y>> \in mask.alpha
                  /\ (\E i \in 1..4 : <<x, y>> \in q[i]) =>
                        (<<x, y>> \in mask.alpha
                            <=> CornerDistance(x, w, r) * CornerDistance(x, w, r)
                                  + CornerDistance(y, h, r) * CornerDistance(y, h, r)
                                  < r * r)
                  /\ ((r <= x /\ x < w - r) \/ (r <= y /\ y < h - r))
                        \/ (\E i \in 1..4 : <<x, y>> \in q[i])

\* A radius larger than half of the height of a wide rectangle: it is
\* clamped, and the corner pixel of the mask is outside the shape.
RoundedMaskClampedWitness ==
    /\ pc = "drawn" /\ mask # NoMask
    /\ layout.BoxWidth = 9 /\ layout.BoxHeight = 8
    /\ layout.BoxRadius = 5 /\ mask.radius = 4
    /\ <<0, 0>> \notin mask.alpha
    /\ <<1, 0>> \in mask.alpha

\* ------------------------------------------------------------------------
\* Properties of maxTextWidthForImage (checked under SpecMaxTextWidth).

\* round(0.15 w) for w >= 0, halves rounded up.
RefRound15(w) == (15 * w + 50) \div 100

\* w - 2 max(24, round(0.15 w)).
RefSafeWidth(w) == w - 2 * RefMax(24, RefRound15(w))

\* C15: maxTextWidthForImage fails for w <= 0 and for every w with
\* w - 2 max(24, round(0.15 w)) <= 0; for every w at which it succeeds it
\* returns that difference, it succeeds at 2w too, and the safe width at 2w
\* is strictly greater.
MaxTextWidthDoubling ==
    pc = "measured" =>
        LET doubled == maxTextWidthForImage(2 * width)
        IN  /\ (err # nilError) <=> (width <= 0 \/ RefSafeWidth(width) <= 0)
            /\ width <= 0 => err = "render: invalid image width " \o ToString(width)
            /\ err # nilError => maxTextWidth = 0
            /\ err = nilError =>
                  /\ maxTextWidth = RefSafeWidth(width)
                  /\ doubled.err = nilError
                  /\ doubled.maxWidth = RefSafeWidth(2 * width)
                  /\ doubled.maxWidth > maxTextWidth

\* The least width that succeeds: 49, with a safe width of one pixel.
MaxTextWidthDoublingWitness ==
    /\ pc = "measured" /\ err = nilError
    /\ width = 49 /\ maxTextWidth = 1
    /\ maxTextWidthForImage(48).err # nilError

\* ------------------------------------------------------------------------
\* Properties of Install (checked under SpecInstall).

Installed == pc = "installed"

IsDir(p) == fs[p].kind = "dir"

\* C16: after a successful Install the three artifacts exist at
\* rootFS/boot/splash.bmp, rootFS/usr/share/backgrounds/tssh/background.jpg
\* and rootFS/etc/tssh.build, in directories that exist; each holds the
\* encoding of img, or buildID and one newline, and nothing of what the
\* file held before.
InstallArtifacts ==
    (Installed /\ err = nilError) =>
        /\ IsDir(rootFS \o <<"boot">>)
        /\ IsDir(rootFS \o <<"usr">>)
        /\ IsDir(rootFS \o <<"usr", "share">>)
        /\ IsDir(rootFS \o <<"usr", "share", "backgrounds">>)
        /\ IsDir(rootFS \o <<"usr", "share", "backgrounds", "tssh">>)
        /\ IsDir(rootFS \o <<"etc">>)
        /\ fs[rootFS \o <<"boot", "splash.bmp">>]
              = [kind |-> "file", content |-> <<[format |-> "bmp", img |-> img]>>]
        /\ fs[rootFS \o <<"usr", "share", "backgrounds", "tssh", "background.jpg">>]
              = [kind |-> "file",
                 content |-> <<[format |-> "jpeg", quality |-> 92, img |-> img]>>]
        /\ fs[rootFS \o <<"etc", "tssh.build">>]
              = [kind |-> "file", content |-> buildID \o <<"\n">>]
        /\ buildID = <<>> => fs[rootFS \o <<"etc", "tssh.build">>].content = <<"\n">>

\* A success with an empty build ID in a rootfs where boot was missing and
\* tssh.build and background.jpg held old content.
InstallArtifactsWitness ==
    /\ Installed /\ err = nilError /\ buildID = <<>>
    /\ fsBefore[rootFS \o <<"boot">>].kind = "absent"
    /\ fsBefore[rootFS \o <<"etc", "tssh.build">>] = [kind |-> "file", content |-> Old]
    /\ fsBefore[rootFS \o <<"usr", "share", "backgrounds", "tssh", "background.jpg">>].kind
          = "file"

\* What holds rootFS, as far as the checks of Install can tell.
RootMissing == rootFS # <<>> /\ fsBefore[rootFS].kind = "absent"

RootIsFile == rootFS # <<>> /\ fsBefore[rootFS].kind = "file"

RootIsDir == rootFS # <<>> /\ fsBefore[rootFS].kind = "dir"

\* C17: Install checks its preconditions in a fixed order and changes
\* nothing when one fails: an empty rootfs path gives "rootfs path is
\* empty", a missing rootfs "does not exist", a rootfs that is a file "not a
\* directory", a nil image "image is nil"; the rootfs checks come before the
\* check of the image; in all of these the file system is as it was.
InstallPreconditions ==
    Installed =>
        /\ rootFS = <<>> => err = "install: rootfs path is empty"
        /\ RootMissing => err = "install: rootfs \"" \o PathString(rootFS) \o "\" does not exist"
        /\ RootIsFile => err = "install: rootfs \"" \o PathString(rootFS) \o "\" is not a directory"
        /\ (RootIsDir /\ img = [nil |-> TRUE]) => err = "install: image is nil"
        /\ (rootFS = <<>> \/ RootMissing \/ RootIsFile \/ img = [nil |-> TRUE]) =>
              (err # nilError /\ fs = fsBefore)

\* A missing rootfs and a nil image: the rootfs is reported.
InstallPreconditionsWitness ==
    /\ Installed /\ RootMissing /\ img = NilImage
    /\ err = "install: rootfs \"missing\" does not exist"

\* The steps of Install in the order of its statements.
InstallSteps ==
    <<"Install", "mkdirBoot", "mkdirBackground", "mkdirEtc", "writeBMP", "writeJPEG",
      "writeText">>

InstallStepIndex(p) == CHOOSE i \in 1..Len(InstallSteps) : InstallSteps[i] = p

\* dir and the directories above it, below the rootfs.
Below(dir) == {SubSeq(dir, 1, k) : k \in (Len(rootFS) + 1)..Len(dir)}

\* The paths a step may change.
StepPaths(step) ==
    IF step = "mkdirBoot" THEN Below(rootFS \o <<"boot">>)
    ELSE IF step = "mkdirBackground"
    THEN Below(rootFS \o <<"usr", "share", "backgrounds", "tssh">>)
    ELSE IF step = "mkdirEtc" THEN Below(rootFS \o <<"etc">>)
    ELSE IF step = "writeBMP" THEN {rootFS \o <<"boot", "splash.bmp">>}
    ELSE IF step = "writeJPEG"
    THEN {rootFS \o <<"usr", "share", "backgrounds", "tssh", "background.jpg">>}
    ELSE IF step = "writeText" THEN {rootFS \o <<"etc", "tssh.build">>}
    ELSE {}

\* The words with which the error of a step starts.
StepErrorHeads(step) ==
    IF step \in {"mkdirBoot", "mkdirBackground", "mkdirEtc"} THEN {"install: create dir "}
    ELSE IF step = "writeBMP" THEN {"install: open bmp ", "install: encode bmp "}
    ELSE IF step = "writeJPEG" THEN {"install: open jpeg ", "install: encode jpeg "}
    ELSE IF step = "writeText" THEN {"install: open metadata ", "install: write metadata "}
    ELSE {"install: rootfs ", "install: stat rootfs: ", "install: image is nil"}

\* What the operating system or the encoder may report on a path.
SystemErrors(p) ==
    {PathError(op, q, errno) :
        op \in {"mkdir", "open", "write"}, q \in Below(p),
        errno \in {ENOENT, EACCES, ENOTDIR, EISDIR, ENOSPC}}
        \cup {"jpeg: image is too large to encode"}

\* The errors a step may return.
StepErrors(step) ==
    IF step = "Install"
    THEN {"install: rootfs path is empty", "install: image is nil",
          "install: rootfs " \o Quote(rootFS) \o " does not exist",
          "install: rootfs " \o Quote(rootFS) \o " is not a directory",
          "install: stat rootfs: " \o PathError("stat", rootFS, EACCES)}
    ELSE LET target ==
                 IF step = "mkdirBoot" THEN rootFS \o <<"boot">>
                 ELSE IF step = "mkdirBackground"
                 THEN rootFS \o <<"usr", "share", "backgrounds", "tssh">>
                 ELSE IF step = "mkdirEtc" THEN rootFS \o <<"etc">>
                 ELSE CHOOSE p \in StepPaths(step) : TRUE
         IN  {head \o Quote(target) \o ": " \o e :
                 head \in StepErrorHeads(step), e \in SystemErrors(target)}

\* The artifacts as the steps before the given one left them and as the
\* later ones will find them.
ArtifactsAt(i) ==
    /\ fs[rootFS \o <<"boot", "splash.bmp">>]
          = (IF i > 5 THEN File(<<[format |-> "bmp", img |-> img]>>)
             ELSE fsBefore[rootFS \o <<"boot", "splash.bmp">>])
    /\ fs[rootFS \o <<"usr", "share", "backgrounds", "tssh", "background.jpg">>]
          = (IF i > 6 THEN File(<<[format |-> "jpeg", quality |-> 92, img |-> img]>>)
             ELSE fsBefore[rootFS \o <<"usr", "share", "backgrounds", "tssh",
                                      "background.jpg">>])
    /\ fs[rootFS \o <<"etc", "tssh.build">>] = fsBefore[rootFS \o <<"etc", "tssh.build">>]
    /\ i > 2 => IsDir(rootFS \o <<"boot">>)
    /\ i > 3 => IsDir(rootFS \o <<"usr", "share", "backgrounds", "tssh">>)
    /\ i > 4 => IsDir(rootFS \o <<"etc">>)

\* C30: Install is not atomic: after the precondition checks it creates the
\* three directories, then writes splash.bmp, then background.jpg, then
\* tssh.build, in that order; when a step fails Install returns the error
\* of that step at once, the artifacts written by the steps before it stay
\* in their new form and those of the later steps are not touched.
InstallStepByStep ==
    /\ [][pc' # pc =>
            LET i == InstallStepIndex(pc)
            IN  /\ pc \in {InstallSteps[k] : k \in 1..Len(InstallSteps)}
                /\ IF err' # nilError
                   THEN pc' = "installed" /\ err' \in StepErrors(pc)
                   ELSE IF i < Len(InstallSteps)
                   THEN pc' = InstallSteps[i + 1]
                   ELSE pc' = "installed"
                /\ \A p \in DOMAIN fs : p \notin StepPaths(pc) => fs'[p] = fs[p]
                /\ (err' # nilError /\ i > 1) =>
                      \A k \in 5..7 :
                          k # i => \A p \in StepPaths(InstallSteps[k]) :
                                      fs'[p] = (IF k > i THEN fsBefore[p] ELSE fs[p])]_vars
    /\ [](pc \in {InstallSteps[k] : k \in 2..Len(InstallSteps)}
            => ArtifactsAt(InstallStepIndex(pc)))

\* background.jpg could not be encoded: the new splash.bmp stays where an
\* old one was, the old tssh.build is as it was, background.jpg is empty.
InstallStepByStepWitness ==
    /\ Installed /\ rootFS = <<"rootfs">> /\ img # NilImage /\ jpegTooLarge(img)
    /\ err = "install: encode jpeg \"rootfs/usr/share/backgrounds/tssh/background.jpg\": "
                \o "jpeg: image is too large to encode"
    /\ fsBefore[rootFS \o <<"boot", "splash.bmp">>] = File(Old)
    /\ fs[rootFS \o <<"boot", "splash.bmp">>] = File(<<[format |-> "bmp", img |-> img]>>)
    /\ fs[rootFS \o <<"etc", "tssh.build">>] = File(Old)
    /\ fsBefore[rootFS \o <<"usr", "share", "backgrounds", "tssh">>].kind = "absent"

\* ------------------------------------------------------------------------
\* Properties of main (checked under SpecMain).

\* The command line is not one main accepts: not two arguments, an empty
\* target name, or a rootfs path that is no directory.
BadCommandLine ==
    IF Len(args) # 3 THEN TRUE
    ELSE \/ args[2] = <<>>
         \/ args[3] = <<>>
         \/ fsBefore[args[3]].kind # "dir"

\* Install has been called.
InInstall ==
    pc \in {"Install", "mkdirBoot", "mkdirBackground", "mkdirEtc", "writeBMP", "writeJPEG",
            "writeText", "installed"}

\* C18: with an argument count other than two, an empty target name, or a
\* rootfs path that does not exist or is no directory, main prints the
\* usage line to stderr and exits with code 1, having sent no request and
\* written nothing; Install is called only after Generate returned an image
\* and no error.
MainValidatesFirst ==
    /\ BadCommandLine =>
          /\ pc \in {"main", "exited"}
          /\ requests = <<>>
          /\ fs = fsBefore
          /\ pc = "exited" =>
                /\ stderr = <<"Usage: ts-release <target-name> <rootfs-dir>">>
                /\ exitCode = 1
    /\ InInstall =>
          /\ img # NilImage
          /\ [img |-> img, err |-> nilError]
                = Render(bg, targetName, buildID, boldFontData, regularFontData)
          /\ Len(requests) = 2
    /\ fs # fsBefore => InInstall \/ pc = "exited"

\* Two arguments, the target name not empty, the rootfs path a regular
\* file: the usage line and exit code 1.
MainValidatesFirstWitness ==
    /\ pc = "exited" /\ exitCode = 1
    /\ Len(args) = 3 /\ args[2] # <<>> /\ args[3] = <<"file">>
    /\ stderr = <<usageLine>>

\* C19: one build ID is computed in a run and used for both outputs: the
\* subtitle drawn into the image is that build ID, and etc/tssh.build holds
\* the same build ID followed by a newline.
MainOneBuildID ==
    (pc = "exited" /\ exitCode = 0) =>
        \E t \in 0..now :
            /\ buildID = RFC3339(t)
            /\ Len(TextLayers(img)) = 2
            /\ TextLayers(img)[2].text = RFC3339(t)
            /\ fs[rootFS \o <<"etc", "tssh.build">>].kind = "file"
            /\ fs[rootFS \o <<"etc", "tssh.build">>].content = RFC3339(t) \o <<"\n">>

\* A run that succeeded and took longer than a second: the clock has moved
\* on since the build ID was computed.
MainOneBuildIDWitness ==
    /\ pc = "exited" /\ exitCode = 0
    /\ buildID = RFC3339(0) /\ now > 0
    /\ fsBefore[rootFS \o <<"etc", "tssh.build">>].kind = "file"

\* ------------------------------------------------------------------------
\* Properties of FetchBackground (checked under SpecFetch).

\* C20: FetchBackground sends no request when the width or the height is
\* not positive (error "invalid target size"); it sends the image request
\* only after the search request came back with a 2xx status and decodable
\* JSON whose first result has a non-empty path, and the URL it downloads
\* is that path.
FetchGated ==
    /\ (width <= 0 \/ height <= 0) =>
          /\ requests = <<>>
          /\ pc = "fetched" =>
                /\ bg = NilImage
                /\ err = "fetch background: invalid target size "
                            \o ToString(width) \o "x" \o ToString(height)
    /\ Len(requests) <= 2
    /\ Len(requests) >= 1 =>
          requests[1].url
              = "https://wallhaven.cc/api/v1/search?categories=100&purity=100&q=nature&resolutions="
                  \o ToString(width) \o "x" \o ToString(height) \o "&sorting=random"
    /\ Len(requests) = 2 =>
          LET found == requests[1].response
          IN  /\ ~found.failed
              /\ found.status >= 200 /\ found.status <= 299
              /\ found.body.json
              /\ Len(found.body.data) >= 1
              /\ found.body.data[1].path # ""
              /\ requests[2].url = found.body.data[1].path

\* The image was downloaded after a search that returned status 299 and
\* two results: the first one is the one downloaded.
FetchGatedWitness ==
    /\ pc = "fetched" /\ err = nilError /\ bg # NilImage
    /\ Len(requests) = 2
    /\ requests[1].response.status = 299
    /\ Len(requests[1].response.body.data) = 2
    /\ requests[2].url = "https://w.wallhaven.cc/full/a.jpg"

\* The search response and the image response of the log.
SearchResponse == requests[1].response

ImageResponse == requests[2].response

\* C21: FetchBackground returns a nil image with an error in every failure
\* case (search request failed, search status not 2xx, search JSON not
\* decodable, no result or an empty first path: "no usable image", image
\* request failed, image status not 2xx, image bytes not decodable: "decode
\* failed"), and a non-nil image only with a nil error.
FetchFailuresReturnNil ==
    pc = "fetched" =>
        /\ bg # NilImage => err = nilError
        /\ err # nilError => bg = NilImage
        /\ (Len(requests) >= 1 /\ SearchResponse.failed) =>
              /\ bg = NilImage
              /\ err = "fetch background: search request failed: <transport error>"
        /\ (Len(requests) >= 1 /\ ~SearchResponse.failed
                /\ (SearchResponse.status < 200 \/ SearchResponse.status > 299)) =>
              /\ bg = NilImage
              /\ err = "fetch background: search request returned http "
                          \o ToString(SearchResponse.status)
        /\ (Len(requests) >= 1 /\ ~SearchResponse.failed
                /\ SearchResponse.status >= 200 /\ SearchResponse.status <= 299
                /\ ~SearchResponse.body.json) =>
              /\ bg = NilImage
              /\ err = "fetch background: decode search failed: <json error>"
        /\ (Len(requests) >= 1 /\ ~SearchResponse.failed
                /\ SearchResponse.status >= 200 /\ SearchResponse.status <= 299
                /\ SearchResponse.body.json
                /\ (\/ SearchResponse.body.data = <<>>
                    \/ Head(SearchResponse.body.data).path = "")) =>
              /\ bg = NilImage
              /\ err = "fetch background: no usable image for "
                          \o ToString(width) \o "x" \o ToString(height)
        /\ (Len(requests) = 2 /\ ImageResponse.failed) =>
              /\ bg = NilImage
              /\ err = "fetch background: image request failed: <transport error>"
        /\ (Len(requests) = 2 /\ ~ImageResponse.failed
                /\ (ImageResponse.status < 200 \/ ImageResponse.status > 299)) =>
              /\ bg = NilImage
              /\ err = "fetch background: image request returned http "
                          \o ToString(ImageResponse.status)
        /\ (Len(requests) = 2 /\ ~ImageResponse.failed
                /\ ImageResponse.status >= 200 /\ ImageResponse.status <= 299
                /\ ~ImageResponse.body.decodes) =>
              /\ bg = NilImage
              /\ err = "fetch background: decode failed: <image error>"
        /\ (Len(requests) = 2 /\ ~ImageResponse.failed
                /\ ImageResponse.status >= 200 /\ ImageResponse.status <= 299
                /\ ImageResponse.body.decodes) =>
              /\ bg = ImageResponse.body.image
              /\ err = nilError

\* The image response has status 200 and bytes that do not decode.
FetchFailuresReturnNilWitness ==
    /\ pc = "fetched" /\ Len(requests) = 2
    /\ ~ImageResponse.failed /\ ImageResponse.status = 200 /\ ~ImageResponse.body.decodes
    /\ bg = NilImage /\ err = "fetch background: decode failed: <image error>"

\* ------------------------------------------------------------------------
\* Properties of interleaved calls (checked under SpecCalls).

\* The call of context c has returned what a call on its own returns for
\* c's arguments.
ReturnsItsOwn(c) ==
    /\ c.pc = "done" =>
          [img |-> c.img, err |-> c.err]
              = Render(c.bg, c.targetName, c.buildID, boldFontData, regularFontData)
    /\ c.pc = "returned" =>
          [layout |-> c.layout, err |-> c.err]
              = ComputeLayoutForText(c.width, c.height, c.titleFace, c.subtitleFace,
                                     c.title, c.subtitle)

SameArguments(c, d) ==
    /\ c.pc = d.pc
    /\ c.pc = "done" =>
          (c.bg = d.bg /\ c.targetName = d.targetName /\ c.buildID = d.buildID)
    /\ c.pc = "returned" =>
          /\ c.width = d.width /\ c.height = d.height
          /\ c.titleFace = d.titleFace /\ c.subtitleFace = d.subtitleFace
          /\ c.title = d.title /\ c.subtitle = d.subtitle

\* C12: the core keeps no state across calls: a call of Render or of
\* ComputeLayoutForText returns the function of its own arguments (and the
\* embedded fonts) whether the other call ran before it, after it or
\* interleaved with it, and two calls with the same arguments return the
\* same results.
CallsIndependent ==
    /\ ReturnsItsOwn(current)
    /\ ReturnsItsOwn(parked)
    /\ (pc \in {"done", "returned"} /\ SameArguments(current, parked)) =>
          (img = parked.img /\ err = parked.err /\ layout = parked.layout)

\* A call of Render has succeeded while the other call, with another target
\* name, is parked between its statements.
CallsIndependentWitness ==
    /\ pc = "done" /\ err = nilError /\ img # NilImage
    /\ parked.pc = "validateTitle"
    /\ parked.targetName # targetName

\* Two calls with the same arguments have both succeeded.
CallsRepeatedWitness ==
    /\ pc = "done" /\ err = nilError /\ img # NilImage
    /\ parked.pc = "done" /\ parked.bg = bg /\ parked.targetName = targetName
    /\ parked.buildID = buildID /\ parked.img = img

====
